---- MODULE Spec2Model ----
(***************************************************************************)
(* State-machine model of abs-mcp-server (src/src/index.ts): the geography *)
(* cache (postcode -> SA2 codes), the SA2 boundary collection, the two     *)
(* start-up loaders with their 30-day disk cache, the point-in-polygon     *)
(* lookup and the tool-call handlers.                                      *)
(*                                                                         *)
(* Text is modelled as a sequence of one-character strings so that split,  *)
(* trim and the postcode pattern are computed, not assumed.                *)
(***************************************************************************)
EXTENDS Integers, Sequences, FiniteSets, TLC

\* ------------------------------------------------------------------------
\* Bounds
\* ------------------------------------------------------------------------
MaxCalls == 2      \* requests (tools/call, tools/list) received in one run
MaxQueries == 2
MaxRestarts == 1      \* process starts after the first one    \* direct latLongToSA2 evaluations in one run

\* ------------------------------------------------------------------------
\* Text helpers (String.prototype.split / trim, RegExp.test)
\* ------------------------------------------------------------------------
Digits == {"0", "1", "2", "3", "4", "5", "6", "7", "8", "9"}
\* what String.prototype.trim strips (ECMAScript WhiteSpace and
\* LineTerminator): space, TAB, CR, LF, FF, VT (U+000B), NBSP (U+00A0),
\* BOM (U+FEFF) and OGHAM SPACE MARK (U+1680).  The other members, U+2000 to
\* U+200A, U+2028, U+2029, U+202F, U+205F and U+3000, cannot be written in a
\* string of this language and are outside the alphabet of the texts below.
Whitespace ==
    {" ", "\t", "\r", "\n", "\f", " ", "﻿", " ",
     ""}

RECURSIVE SplitFrom(_, _, _, _)
SplitFrom(s, sep, i, cur) ==
    IF i > Len(s) THEN <<cur>>
    ELSE IF s[i] = sep THEN <<cur>> \o SplitFrom(s, sep, i + 1, <<>>)
    ELSE SplitFrom(s, sep, i + 1, Append(cur, s[i]))

\* s.split(sep) for a one-character separator
Split(s, sep) == SplitFrom(s, sep, 1, <<>>)

RECURSIVE TrimLeft(_)
TrimLeft(s) ==
    IF s # <<>> /\ Head(s) \in Whitespace THEN TrimLeft(Tail(s)) ELSE s

RECURSIVE TrimRight(_)
TrimRight(s) ==
    IF s # <<>> /\ s[Len(s)] \in Whitespace
    THEN TrimRight(SubSeq(s, 1, Len(s) - 1)) ELSE s

\* s.trim()
Trim(s) == TrimRight(TrimLeft(s))

\* /^\d{4}$/.test(s)
MatchesPostcodePattern(s) ==
    Len(s) = 4 /\ \A i \in 1..Len(s) : s[i] \in Digits

\* ------------------------------------------------------------------------
\* Program constants
\* ------------------------------------------------------------------------
\* cacheMaxAge = 30 * 24 * 60 * 60 * 1000 ms; ages are kept in seconds here
\* (the millisecond value exceeds the checker's integer range), so every
\* age below is a whole number of seconds and the comparison is unchanged.
cacheMaxAge == 30 * 24 * 60 * 60

NoError == "null"
CacheErrorText == "Failed to initialize geography cache"
GeoErrorText == "Failed to initialize geospatial boundaries"

\* ------------------------------------------------------------------------
\* Input data: concordance CSV texts
\* ------------------------------------------------------------------------
PC2000 == <<"2", "0", "0", "0">>
PC2060 == <<"2", "0", "6", "0">>
PC2010 == <<"2", "0", "1", "0">>
SA11 == <<"1", "1">>
SA12 == <<"1", "2">>
SA20 == <<"2", "0">>

HeaderLine == <<"P", "O", "A", ",", "S", "A", "2">>
Row(p, c) == p \o <<",">> \o c

RECURSIVE JoinNL(_)
JoinNL(ls) ==
    IF ls = <<>> THEN <<>>
    ELSE IF Len(ls) = 1 THEN ls[1]
    ELSE ls[1] \o <<"\n">> \o JoinNL(Tail(ls))

\* header, 2000 -> 11, 2000 -> 12, 2060 -> 20, trailing newline
CsvMain ==
    JoinNL(<< HeaderLine, Row(PC2000, SA11), Row(PC2000, SA12),
              Row(PC2060, SA20), <<>> >>)
\* blank line, one-field row, blank postcode (space, FF), blank SA2 code
\* (NBSP), row padded with space, FF and NBSP with an extra field and CR,
\* repeated row
CsvMessy ==
    JoinNL(<< HeaderLine, <<>>, PC2000, Row(<<" ", "\f">>, SA11),
              Row(PC2010, <<" ">>),
              <<"\f", " ">> \o PC2000 \o <<" ", ",", " ">> \o SA12
                  \o <<"\f", ",", "x", "\r">>,
              Row(PC2000, SA12), Row(PC2060, SA11) >>)
\* header, 2000 -> 11, 2060 -> 20, 2000 -> 20: code 20 is listed first by a
\* row of 2060, and 2000 is the first postcode of the file
CsvShared ==
    JoinNL(<< HeaderLine, Row(PC2000, SA11), Row(PC2060, SA20),
              Row(PC2000, SA20) >>)
\* an older copy of the table, as a disk cache may hold
CsvOld == JoinNL(<< HeaderLine, Row(PC2060, SA20) >>)
CsvEmpty == <<>>

\* ------------------------------------------------------------------------
\* Input data: boundary documents (the result JSON.parse gives for a text)
\* ------------------------------------------------------------------------
\* A polygon is an axis-aligned rectangle in (longitude, latitude) order, or
\* a malformed coordinate array on which the geometry test raises an error.
Rect(w, e, s, n) == [bad |-> FALSE, w |-> w, e |-> e, s |-> s, n |-> n]
BadPoly == [bad |-> TRUE, w |-> 0, e |-> 0, s |-> 0, n |-> 0]
NoPoint == <<>>

Feature(code, name, type, polys, pt) ==
    [SA2_CODE |-> code, SA2_NAME |-> name, type |-> type,
     polys |-> polys, pt |-> pt]

FSydney   == Feature(SA11, "Sydney", "Polygon", <<Rect(100, 120, 0, 2)>>, NoPoint)
FOverlap  == Feature(SA12, "Overlap", "Polygon", <<Rect(100, 110, 1, 3)>>, NoPoint)
FIslands  == Feature(SA20, "Islands", "MultiPolygon",
                     <<Rect(0, 1, 0, 1), Rect(50, 51, 50, 51)>>, NoPoint)
FBadPoly  == Feature(SA12, "BadRing", "Polygon", <<BadPoly>>, NoPoint)
FBadMulti == Feature(SA20, "BadMember", "MultiPolygon",
                     <<BadPoly, Rect(100, 120, 0, 2)>>, NoPoint)
FCentroid == Feature(SA20, "Centroid", "Point", <<>>, <<100, 5>>)

Doc(ok, kind, features) == [syntaxOk |-> ok, kind |-> kind, features |-> features]
GeoMain       == Doc(TRUE, "collection", <<FSydney, FOverlap, FIslands, FCentroid>>)
GeoBroken     == Doc(TRUE, "collection", <<FBadPoly, FBadMulti, FCentroid, FSydney>>)
GeoOld        == Doc(TRUE, "collection", <<FIslands>>)
GeoEmpty      == Doc(TRUE, "collection", <<>>)
GeoNoFeatures == Doc(TRUE, "object", <<>>)   \* valid JSON object without "features"
GeoNull       == Doc(TRUE, "null", <<>>)     \* the JSON text null
GeoSyntax     == Doc(FALSE, "null", <<>>)    \* not JSON

\* geoFeatures before initialization (let geoFeatures = null)
NullFeatures == [kind |-> "null", features |-> <<>>]

\* ------------------------------------------------------------------------
\* File system seen by the loaders
\* ------------------------------------------------------------------------
\* writable: whether writeFileSync to this path succeeds
CacheFile(exists, statOk, age, readable, content, writable) ==
    [exists |-> exists, statOk |-> statOk, age |-> age,
     readable |-> readable, content |-> content, writable |-> writable]
BaseFile(readable, content) == [readable |-> readable, content |-> content]

\* .data/postcodes.csv : absent; present but statSync throws; stale; fresh
\* and unreadable; fresh and readable
PcCacheFiles ==
    {CacheFile(FALSE, TRUE, 0, TRUE, CsvEmpty, w) : w \in BOOLEAN}
    \cup {CacheFile(TRUE, FALSE, 0, TRUE, CsvOld, w) : w \in BOOLEAN}
    \cup {CacheFile(TRUE, TRUE, a, TRUE, CsvOld, w) :
             a \in {cacheMaxAge, cacheMaxAge + 1}, w \in BOOLEAN}
    \cup {CacheFile(TRUE, TRUE, a, FALSE, CsvOld, TRUE) : a \in {0, cacheMaxAge - 1}}
    \cup {CacheFile(TRUE, TRUE, a, TRUE, c, TRUE) :
             a \in {0, cacheMaxAge - 1}, c \in {CsvOld, CsvMessy}}
\* src/postcodes.csv
PcBaseFiles ==
    {BaseFile(FALSE, CsvEmpty)} \cup {BaseFile(TRUE, c) : c \in {CsvMain, CsvMessy, CsvEmpty}}

\* .data/sa2-boundaries.json
GeoCacheFiles ==
    {CacheFile(FALSE, TRUE, 0, TRUE, GeoEmpty, w) : w \in BOOLEAN}
    \cup {CacheFile(TRUE, FALSE, 0, TRUE, GeoOld, w) : w \in BOOLEAN}
    \cup {CacheFile(TRUE, TRUE, a, TRUE, GeoOld, w) :
             a \in {cacheMaxAge, cacheMaxAge + 1}, w \in BOOLEAN}
    \cup {CacheFile(TRUE, TRUE, a, FALSE, GeoOld, TRUE) : a \in {0, cacheMaxAge - 1}}
    \cup {CacheFile(TRUE, TRUE, a, TRUE, c, TRUE) :
             a \in {0, cacheMaxAge - 1}, c \in {GeoOld, GeoSyntax, GeoNoFeatures}}
\* src/sa2-boundaries.json
GeoBaseFiles ==
    {BaseFile(FALSE, GeoEmpty)}
    \cup {BaseFile(TRUE, c) :
             c \in {GeoMain, GeoBroken, GeoEmpty, GeoNoFeatures, GeoNull, GeoSyntax}}

\* ------------------------------------------------------------------------
\* State
\* ------------------------------------------------------------------------
VARIABLES
    phase,                    \* position in the module start-up sequence
    fs,                       \* data directory, cache files, embedded files
    geographyCache,           \* Map<string, string[]> in insertion order
    cacheInitialized,
    cacheError,
    geoFeatures,
    geoBoundariesInitialized,
    geoBoundariesError,
    tier,                     \* per dataset: source the loader chose
    writeAttempts,            \* per dataset: writeFileSync calls made
    lastQuery,                \* last latLongToSA2 evaluation
    nQueries,
    pending,                  \* tool calls suspended at an ABS fetch
    lastCall,                 \* last tool call that returned a response
    nCalls,
    lastList,                 \* tool names of the last tools/list response
    previousStart             \* what the previous process run left behind

vars == <<phase, fs, geographyCache, cacheInitialized, cacheError, geoFeatures,
          geoBoundariesInitialized, geoBoundariesError, tier, writeAttempts,
          lastQuery, nQueries, pending, lastCall, nCalls, lastList,
          previousStart>>

indexVars == <<geographyCache, cacheInitialized, cacheError, geoFeatures,
               geoBoundariesInitialized, geoBoundariesError>>
serveVars == <<lastQuery, nQueries, pending, lastCall, nCalls, lastList>>

Datasets == {"postcodes", "boundaries"}

\* ------------------------------------------------------------------------
\* geographyCache: a Map kept as a sequence of entries in insertion order
\* ------------------------------------------------------------------------
MapHas(m, k) == \E i \in 1..Len(m) : m[i].postcode = k
MapIndex(m, k) == CHOOSE i \in 1..Len(m) : m[i].postcode = k
MapGet(m, k) == m[MapIndex(m, k)].sa2Codes
\* a push that drops a code the postcode already has
MapPushDedup(m, k, v) ==
    IF MapHas(m, k)
    THEN IF \E j \in 1..Len(MapGet(m, k)) : MapGet(m, k)[j] = v THEN m
         ELSE [m EXCEPT ![MapIndex(m, k)].sa2Codes = Append(@, v)]
    ELSE Append(m, [postcode |-> k, sa2Codes |-> <<v>>])

\* if (!has(k)) set(k, []); get(k).push(v)
MapPush(m, k, v) ==
    IF MapHas(m, k)
    THEN [m EXCEPT ![MapIndex(m, k)].sa2Codes = Append(@, v)]
    ELSE Append(m, [postcode |-> k, sa2Codes |-> <<v>>])
MapKeys(m) == {m[i].postcode : i \in 1..Len(m)}

\* body of the parse loop for one line
ParseRow(m, rawLine) ==
    LET line == Trim(rawLine) IN
    IF line = <<>> THEN m
    ELSE LET parts == Split(line, ",") IN
         IF Len(parts) < 2 THEN m
         ELSE LET postcode == Trim(parts[1])
                  sa2Code == Trim(parts[2]) IN
              IF postcode # <<>> /\ sa2Code # <<>>
              THEN MapPush(m, postcode, sa2Code)
              ELSE m

\* a loop that stops at the first line it cannot index
RECURSIVE ParseLinesStopAtBadRow(_, _, _)
ParseLinesStopAtBadRow(m, lines, i) ==
    IF i > Len(lines) THEN m
    ELSE IF ParseRow(m, lines[i]) = m THEN m
    ELSE CHOOSE r \in {ParseLinesStopAtBadRow(next, lines, i + 1) :
                           next \in {ParseRow(m, lines[i])}} : TRUE

\* the loop over the lines: the map left by one line is the map the next
\* line works on (bound here as a value, once per line)
RECURSIVE ParseLines(_, _, _)
ParseLines(m, lines, i) ==
    IF i > Len(lines) THEN m
    ELSE CHOOSE r \in {ParseLines(next, lines, i + 1) :
                           next \in {ParseRow(m, lines[i])}} : TRUE

\* lines = csvText.split('\n'); for (i = 1; i < lines.length; i++) ...
\* (index 1 of the 0-based array is the second line)
ParseCsv(m, csvText) ==
    CHOOSE r \in {ParseLines(m, lines, 2) : lines \in {Split(csvText, "\n")}} : TRUE

\* ------------------------------------------------------------------------
\* Two-tier loader (the same code in both initialize functions)
\* ------------------------------------------------------------------------
\* the age test with <= in place of <
UseCacheInclusive(f) == f.exists /\ f.statOk /\ f.age <= cacheMaxAge

\* existsSync(cachePath), statSync in try/catch, age < cacheMaxAge
UseCache(f) == f.exists /\ f.statOk /\ f.age < cacheMaxAge

\* a read that goes to the embedded file when the cache file cannot be read
SourceFileWithFallback(cacheFile, baseFile) ==
    IF UseCache(cacheFile) /\ cacheFile.readable THEN cacheFile ELSE baseFile

\* file the text is read from
SourceFile(cacheFile, baseFile) ==
    IF UseCache(cacheFile) THEN cacheFile ELSE baseFile

TierOf(cacheFile) == IF UseCache(cacheFile) THEN "cached" ELSE "baseline"

\* the save attempt made without its own try/catch
LoadThrowsOnSaveFailure(readOk, saveFailed) == ~readOk \/ saveFailed

\* a load that also gives up when the other loader has recorded an error
LoadThrowsSharedError(readOk, saveFailed) == ~readOk \/ cacheError # NoError

\* Does the load leave the outer try block with an exception, given whether
\* readFileSync succeeded and whether saving the cache (mkdirSync or
\* writeFileSync) failed?  The save sits in its own try/catch.
LoadThrows(readOk, saveFailed) == ~readOk

\* a save that goes on to writeFileSync after a failed mkdirSync
WriteReachedAfterFailedMkdir(dataDir, mkdirOk) == TRUE

\* writeFileSync is reached when the data directory exists or mkdirSync
\* succeeded
WriteReached(dataDir, mkdirOk) == dataDir \/ mkdirOk

\* a save that renews the modification time but leaves the old content
SavedFileTouchOnly(old, text, reached) ==
    IF reached /\ old.writable
    THEN CacheFile(TRUE, TRUE, 0,
                   IF old.exists THEN old.readable ELSE TRUE, old.content, TRUE)
    ELSE old

\* cache file after the save attempt
SavedFile(old, text, reached) ==
    IF reached /\ old.writable
    THEN CacheFile(TRUE, TRUE, 0,
                   IF old.exists THEN old.readable ELSE TRUE, text, TRUE)
    ELSE old

\* JSON.parse(geoText)
JsonParseThrows(geoText) == ~geoText.syntaxOk
JsonParse(geoText) == [kind |-> geoText.kind, features |-> geoText.features]

\* `${geoFeatures?.features.length || 0}` raises a TypeError when the parsed
\* value is not null and has no features list
FeatureCountThrows(value) == value.kind = "object"

\* ------------------------------------------------------------------------
\* Start-up sequence
\* ------------------------------------------------------------------------
initializeGeographyCache ==
    /\ phase = "initCache"
    /\ LET useCache == UseCache(fs.pcCache)
             src == SourceFile(fs.pcCache, fs.pcBase)
             reached == ~useCache /\ src.readable /\ WriteReached(fs.dataDir, fs.mkdirOk)
             saveFailed == ~useCache /\ src.readable /\ ~(reached /\ fs.pcCache.writable)
         IN
         /\ tier' = [tier EXCEPT !["postcodes"] = TierOf(fs.pcCache)]
         /\ fs' = IF useCache \/ ~src.readable THEN fs
                  ELSE [fs EXCEPT !.dataDir = @ \/ fs.mkdirOk,
                                  !.pcCache = SavedFile(@, src.content, reached)]
         /\ writeAttempts' = [writeAttempts EXCEPT
                                  !["postcodes"] = IF reached THEN @ + 1 ELSE @]
         /\ IF LoadThrows(src.readable, saveFailed)
            THEN /\ cacheError' = CacheErrorText
                 /\ UNCHANGED <<geographyCache, cacheInitialized>>
            ELSE /\ geographyCache' = ParseCsv(geographyCache, src.content)
                 /\ cacheInitialized' = TRUE
                 /\ UNCHANGED cacheError
    /\ phase' = "initGeo"
    /\ UNCHANGED <<geoFeatures, geoBoundariesInitialized, geoBoundariesError>>
    /\ UNCHANGED serveVars
    /\ UNCHANGED previousStart

initializeGeoBoundaries ==
    /\ phase = "initGeo"
    /\ LET useCache == UseCache(fs.geoCache)
             src == SourceFile(fs.geoCache, fs.geoBase)
             reached == ~useCache /\ src.readable /\ WriteReached(fs.dataDir, fs.mkdirOk)
             saveFailed == ~useCache /\ src.readable /\ ~(reached /\ fs.geoCache.writable)
         IN
         /\ tier' = [tier EXCEPT !["boundaries"] = TierOf(fs.geoCache)]
         /\ fs' = IF useCache \/ ~src.readable THEN fs
                  ELSE [fs EXCEPT !.dataDir = @ \/ fs.mkdirOk,
                                  !.geoCache = SavedFile(@, src.content, reached)]
         /\ writeAttempts' = [writeAttempts EXCEPT
                                  !["boundaries"] = IF reached THEN @ + 1 ELSE @]
         /\ IF LoadThrows(src.readable, saveFailed) \/ JsonParseThrows(src.content)
            THEN /\ geoBoundariesError' = GeoErrorText
                 /\ UNCHANGED <<geoFeatures, geoBoundariesInitialized>>
            ELSE /\ geoFeatures' = JsonParse(src.content)
                 /\ geoBoundariesInitialized' = TRUE
                 /\ geoBoundariesError' =
                        IF FeatureCountThrows(JsonParse(src.content))
                        THEN GeoErrorText ELSE geoBoundariesError
    /\ phase' = "connect"
    /\ UNCHANGED <<geographyCache, cacheInitialized, cacheError>>
    /\ UNCHANGED serveVars
    /\ UNCHANGED previousStart

\* The status report after server.connect reads geoFeatures.features.length
\* outside any try block; on a parsed value without a features list the
\* module evaluation fails and the process ends.
StatusReportThrows ==
    geoBoundariesInitialized /\ geoFeatures.kind = "object"

\* a start-up that forgets the recorded load errors once connected
connectClearingErrors ==
    /\ phase = "connect"
    /\ phase' = IF StatusReportThrows THEN "crashed" ELSE "serving"
    /\ cacheError' = NoError
    /\ geoBoundariesError' = NoError
    /\ UNCHANGED <<fs, tier, writeAttempts>>
    /\ UNCHANGED <<geographyCache, cacheInitialized, geoFeatures, geoBoundariesInitialized>>
    /\ UNCHANGED serveVars
    /\ UNCHANGED previousStart

\* a start-up that connects the transport only when both indexes are ready
connectOnlyWhenReady ==
    /\ phase = "connect"
    /\ cacheInitialized /\ geoBoundariesInitialized
    /\ phase' = IF StatusReportThrows THEN "crashed" ELSE "serving"
    /\ UNCHANGED <<fs, tier, writeAttempts>>
    /\ UNCHANGED indexVars
    /\ UNCHANGED serveVars
    /\ UNCHANGED previousStart

connect ==
    /\ phase = "connect"
    /\ phase' = IF StatusReportThrows THEN "crashed" ELSE "serving"
    /\ UNCHANGED <<fs, tier, writeAttempts>>
    /\ UNCHANGED indexVars
    /\ UNCHANGED serveVars
    /\ UNCHANGED previousStart

\* ------------------------------------------------------------------------
\* Reverse geocoding: latLongToSA2
\* ------------------------------------------------------------------------
Latitudes == {-91, -90, 1, 3, 50, 90, 91}
Longitudes == {-181, -180, 0, 50, 100, 180, 181}

\* turf.point([longitude, latitude]) : position <<x, y>>
TurfPoint(latitude, longitude) == <<longitude, latitude>>

\* turf.booleanPointInPolygon on a well-formed polygon (boundary included)
PointInPolygon(pt, poly) ==
    /\ poly.w <= pt[1] /\ pt[1] <= poly.e
    /\ poly.s <= pt[2] /\ pt[2] <= poly.n

\* members of a MultiPolygon in order: "match", "nomatch" or "throw"
RECURSIVE TestMembers(_, _, _)
TestMembers(pt, polys, i) ==
    IF i > Len(polys) THEN "nomatch"
    ELSE IF polys[i].bad THEN "throw"
    ELSE IF PointInPolygon(pt, polys[i]) THEN "match"
    ELSE TestMembers(pt, polys, i + 1)

\* body of the inner try block for one feature
TestFeature(pt, feature) ==
    IF feature.type = "Polygon"
    THEN IF feature.polys[1].bad THEN "throw"
         ELSE IF PointInPolygon(pt, feature.polys[1]) THEN "match" ELSE "nomatch"
    ELSE IF feature.type = "MultiPolygon"
    THEN TestMembers(pt, feature.polys, 1)
    ELSE "nomatch"

\* a scan that keeps going after a match and so returns the last one
RECURSIVE ScanFeaturesLast(_, _, _)
ScanFeaturesLast(pt, features, i) ==
    IF i > Len(features) THEN 0
    ELSE LET later == ScanFeaturesLast(pt, features, i + 1) IN
         IF later # 0 THEN later
         ELSE IF TestFeature(pt, features[i]) = "match" THEN i ELSE 0

\* a scan that ends without a result at the first feature whose test throws
RECURSIVE ScanFeaturesAbortOnError(_, _, _)
ScanFeaturesAbortOnError(pt, features, i) ==
    IF i > Len(features) THEN 0
    ELSE IF TestFeature(pt, features[i]) = "throw" THEN 0
    ELSE IF TestFeature(pt, features[i]) = "match" THEN i
    ELSE ScanFeaturesAbortOnError(pt, features, i + 1)

\* for (const feature of features): index of the feature returned, 0 if the
\* loop ends; a feature whose test throws is passed over (catch: continue)
RECURSIVE ScanFeatures(_, _, _)
ScanFeatures(pt, features, i) ==
    IF i > Len(features) THEN 0
    ELSE IF TestFeature(pt, features[i]) = "match" THEN i
    ELSE ScanFeatures(pt, features, i + 1)

CoordinatesInvalid(latitude, longitude) ==
    latitude < -90 \/ latitude > 90 \/ longitude < -180 \/ longitude > 180

\* Value returned (isNull, sa2Code, sa2Name) together with the return
\* statement taken (site) and the number of features tested (tested).
GeoResult(isNull, code, name, site, tested) ==
    [isNull |-> isNull, sa2Code |-> code, sa2Name |-> name,
     site |-> site, tested |-> tested]
NullResult(site, tested) == GeoResult(TRUE, <<>>, "", site, tested)

latLongToSA2(latitude, longitude) ==
    IF ~geoBoundariesInitialized \/ geoFeatures.kind = "null"
    THEN NullResult("notReady", 0)
    ELSE IF CoordinatesInvalid(latitude, longitude)
    THEN NullResult("invalid", 0)
    ELSE IF geoFeatures.kind = "object"
    THEN NullResult("error", 0)        \* features is not iterable: outer catch
    ELSE LET pt == TurfPoint(latitude, longitude)
             hit == ScanFeatures(pt, geoFeatures.features, 1)
         IN IF hit = 0
            THEN NullResult("noMatch", Len(geoFeatures.features))
            ELSE GeoResult(FALSE, geoFeatures.features[hit].SA2_CODE,
                           geoFeatures.features[hit].SA2_NAME, "match", hit)

\* value returned by getPostcodeFromCoordinates (called: whether the query
\* went through that function)
PostcodeResult(isNull, postcode, code, name) ==
    [called |-> TRUE, isNull |-> isNull, postcode |-> postcode,
     sa2Code |-> code, sa2Name |-> name]
NullPostcode == PostcodeResult(TRUE, <<>>, <<>>, "")
NoReverse == [called |-> FALSE, isNull |-> TRUE, postcode |-> <<>>,
              sa2Code |-> <<>>, sa2Name |-> ""]

NoQuery == [made |-> FALSE, latitude |-> 0, longitude |-> 0,
            result |-> NullResult("none", 0), reverse |-> NoReverse]

\* a lookup that moves the feature it returned to the front of the list
QueryCoordinateMoveToFront(latitude, longitude) ==
    /\ phase = "serving"
    /\ nQueries < MaxQueries
    /\ lastQuery' = [made |-> TRUE, latitude |-> latitude, longitude |-> longitude,
                     result |-> latLongToSA2(latitude, longitude),
                     reverse |-> NoReverse]
    /\ nQueries' = nQueries + 1
    /\ LET r == latLongToSA2(latitude, longitude) IN
       geoFeatures' =
          IF r.isNull THEN geoFeatures
          ELSE [geoFeatures EXCEPT !.features =
                   <<geoFeatures.features[r.tested]>>
                   \o SubSeq(geoFeatures.features, 1, r.tested - 1)
                   \o SubSeq(geoFeatures.features, r.tested + 1,
                             Len(geoFeatures.features))]
    /\ UNCHANGED <<phase, fs, tier, writeAttempts, pending, lastCall, nCalls, lastList,
                   previousStart>>
    /\ UNCHANGED <<geographyCache, cacheInitialized, cacheError,
                   geoBoundariesInitialized, geoBoundariesError>>

\* one evaluation of latLongToSA2 by the running server
QueryCoordinate(latitude, longitude) ==
    /\ phase = "serving"
    /\ nQueries < MaxQueries
    /\ lastQuery' = [made |-> TRUE, latitude |-> latitude, longitude |-> longitude,
                     result |-> latLongToSA2(latitude, longitude),
                     reverse |-> NoReverse]
    /\ nQueries' = nQueries + 1
    /\ UNCHANGED <<phase, fs, tier, writeAttempts, pending, lastCall, nCalls, lastList,
                   previousStart>>
    /\ UNCHANGED indexVars

\* ------------------------------------------------------------------------
\* Reverse geocoding to a postcode: getPostcodeFromCoordinates
\* ------------------------------------------------------------------------
\* a search that returns the last postcode listing the code
RECURSIVE FindPostcodeLast(_, _, _)
FindPostcodeLast(m, code, i) ==
    IF i > Len(m) THEN 0
    ELSE LET later == FindPostcodeLast(m, code, i + 1) IN
         IF later # 0 THEN later
         ELSE IF \E j \in 1..Len(m[i].sa2Codes) : m[i].sa2Codes[j] = code
         THEN i ELSE 0

\* for (const [postcode, sa2Codes] of geographyCache.entries()):
\* index of the first entry whose list includes the code, 0 if none
RECURSIVE FindPostcode(_, _, _)
FindPostcode(m, code, i) ==
    IF i > Len(m) THEN 0
    ELSE IF \E j \in 1..Len(m[i].sa2Codes) : m[i].sa2Codes[j] = code THEN i
    ELSE FindPostcode(m, code, i + 1)

getPostcodeFromCoordinates(latitude, longitude) ==
    LET sa2Result == latLongToSA2(latitude, longitude) IN
    IF sa2Result.isNull THEN NullPostcode
    ELSE LET hit == FindPostcode(geographyCache, sa2Result.sa2Code, 1) IN
         IF hit = 0 THEN NullPostcode
         ELSE PostcodeResult(FALSE, geographyCache[hit].postcode,
                             sa2Result.sa2Code, sa2Result.sa2Name)

\* a reverse lookup that moves the entry it found to the front of the map
QueryPostcodePromoting(latitude, longitude) ==
    /\ phase = "serving"
    /\ nQueries < MaxQueries
    /\ lastQuery' = [made |-> TRUE, latitude |-> latitude, longitude |-> longitude,
                     result |-> latLongToSA2(latitude, longitude),
                     reverse |-> getPostcodeFromCoordinates(latitude, longitude)]
    /\ nQueries' = nQueries + 1
    /\ LET r == getPostcodeFromCoordinates(latitude, longitude) IN
       geographyCache' =
          IF r.isNull THEN geographyCache
          ELSE LET i == MapIndex(geographyCache, r.postcode) IN
               <<geographyCache[i]>> \o SubSeq(geographyCache, 1, i - 1)
               \o SubSeq(geographyCache, i + 1, Len(geographyCache))
    /\ UNCHANGED <<phase, fs, tier, writeAttempts, pending, lastCall, nCalls, lastList,
                   previousStart>>
    /\ UNCHANGED <<cacheInitialized, cacheError, geoFeatures,
                   geoBoundariesInitialized, geoBoundariesError>>

\* one evaluation of getPostcodeFromCoordinates by the running server
QueryPostcode(latitude, longitude) ==
    /\ phase = "serving"
    /\ nQueries < MaxQueries
    /\ lastQuery' = [made |-> TRUE, latitude |-> latitude, longitude |-> longitude,
                     result |-> latLongToSA2(latitude, longitude),
                     reverse |-> getPostcodeFromCoordinates(latitude, longitude)]
    /\ nQueries' = nQueries + 1
    /\ UNCHANGED <<phase, fs, tier, writeAttempts, pending, lastCall, nCalls, lastList,
                   previousStart>>
    /\ UNCHANGED indexVars

\* ------------------------------------------------------------------------
\* Tool calls: arguments, ABS responses, response envelope
\* ------------------------------------------------------------------------
PostcodeTools == {"get_suburb_stats", "get_supply_pipeline", "get_gentrification_score"}
RegionTools == {"get_mortgage_stress", "get_wealth_migration", "get_investor_sentiment"}
\* names of the tools array the ListToolsRequestSchema handler returns
ListToolsResponse ==
    << "get_suburb_stats", "get_mortgage_stress", "get_supply_pipeline",
       "get_wealth_migration", "get_investor_sentiment", "get_gentrification_score" >>
ListedTools == {ListToolsResponse[i] : i \in 1..Len(ListToolsResponse)}
\* names a client may send; the last two are not cases of the switch
ToolNames == ListedTools \cup {"get_location_stats", "get_all_statistics"}

\* value of the postcode / region property of request.params.arguments
Undefined == [defined |-> FALSE, s |-> <<>>]
Str(s) == [defined |-> TRUE, s |-> s]
ArgStrings ==
    { <<>>, <<" ">>, <<"8", "0", "0">>, PC2000, PC2060, <<"9", "9", "9", "9">>,
      <<"2", "0", "0", "a">>, <<"9", "9", "9", "9", "9">> }
PostcodeArgs == {Undefined} \cup {Str(s) : s \in ArgStrings}
RegionArgs == {Undefined, Str(<<>>), Str(<<" ", "\f", " ">>), Str(PC2000)}
\* the property a handler reads from the arguments; no handler, no read
ArgsFor(name) ==
    IF name \in PostcodeTools THEN PostcodeArgs
    ELSE IF name \in RegionTools THEN RegionArgs
    ELSE {Undefined}

Null == [isNull |-> TRUE, n |-> 0]
Num(n) == [isNull |-> FALSE, n |-> n]

\* What fetchABSData resolves to.  kind "error" is the { error } object built
\* for a non-ok status, a network failure or an unparsable body; the others
\* are parsed bodies: the JSON value null, no series, series {}, a series
\* without observations, observations {}, and a first observation value.
Data(kind, n) == [kind |-> kind, n |-> n]
NoData == Data("none", 0)
Values == {0, 4000}
FetchResults ==
    {Data(k, 0) : k \in {"error", "null", "noSeries", "emptySeries",
                         "noObservations", "emptyObservations"}}
    \cup {Data("value", n) : n \in Values}

\* data.error is read: a TypeError on null
DataErrorThrows(data) == data.kind = "null"
DataHasError(data) == data.kind = "error"

\* extractValue
ExtractValueThrows(data) == data.kind \in {"null", "noObservations"}
extractValue(data) == IF data.kind = "value" THEN Num(data.n) ELSE Null

\* createErrorResponse / createSuccessResponse; text names the message
\* template, payload carries the figures of a success body
Payload(sa2Codes, a, b, signal) ==
    [sa2Codes |-> sa2Codes, a |-> a, b |-> b, signal |-> signal]
NoPayload == Payload(<<>>, Null, Null, "")
createErrorResponse(text) == [isError |-> TRUE, text |-> text, payload |-> NoPayload]
createSuccessResponse(payload) == [isError |-> FALSE, text |-> "json", payload |-> payload]

\* a catch block that turns only validation errors into a response and
\* throws everything else on to the caller of the handler
ErrorExecutingToolRethrow(message) ==
    IF message \in {"Error executing tool: Invalid Australian postcode",
                    "Error executing tool: Invalid region"}
    THEN createErrorResponse(message)
    ELSE [isError |-> FALSE, text |-> "exception", payload |-> NoPayload]

\* catch block of the CallToolRequestSchema handler
ErrorExecutingTool(message) == createErrorResponse(message)
ValidationMessage == "Error executing tool: Invalid Australian postcode"
RegionMessage == "Error executing tool: Invalid region"
TypeErrorMessage == "Error executing tool: TypeError"
NotInitializedMessage == "Geography cache not initialized"
NotFoundMessage == "Postcode not found in geography cache"
UnknownToolMessage == "Unknown tool"
FetchFailedMessage == "Unable to retrieve data"
InsufficientMessage == "Insufficient data"

\* the pattern without its anchors: any four consecutive digits
validatePostcodeUnanchored(postcode) ==
    \/ ~postcode.defined
    \/ postcode.s = <<>>
    \/ ~\E i \in 1..Len(postcode.s) :
           /\ i + 3 <= Len(postcode.s)
           /\ \A j \in i..(i + 3) : postcode.s[j] \in Digits

\* validatePostcode: TRUE when it throws ValidationError
validatePostcode(postcode) ==
    ~postcode.defined \/ postcode.s = <<>> \/ ~MatchesPostcodePattern(postcode.s)

\* validateRegion: TRUE when it throws ValidationError
validateRegion(region) ==
    ~region.defined \/ region.s = <<>> \/ Len(Trim(region.s)) = 0

getSA2CodesForPostcode(postcode) ==
    IF ~cacheInitialized THEN <<>>
    ELSE IF MapHas(geographyCache, postcode) THEN MapGet(geographyCache, postcode)
    ELSE <<>>

\* ------------------------------------------------------------------------
\* Tool handlers
\* ------------------------------------------------------------------------
TwoFetchTools == {"get_supply_pipeline", "get_gentrification_score", "get_wealth_migration"}

\* Result of running a handler up to its first await: either a response, or
\* the handler is suspended at its first fetch with the SA2 codes it found.
\* lookups counts the reads of the postcode map.
Returned(response, lookups) ==
    [done |-> TRUE, response |-> response, sa2Codes |-> <<>>, lookups |-> lookups]
Suspended(sa2Codes, lookups) ==
    [done |-> FALSE, response |-> createErrorResponse(""), sa2Codes |-> sa2Codes,
     lookups |-> lookups]

\* the handler prefix without its cacheInitialized check
PostcodePrefixNoReadyCheck(postcode) ==
    IF validatePostcode(postcode)
    THEN Returned(ErrorExecutingTool(ValidationMessage), 0)
    ELSE LET sa2Codes == getSA2CodesForPostcode(postcode.s) IN
         IF Len(sa2Codes) = 0
         THEN Returned(createErrorResponse(NotFoundMessage), 1)
         ELSE Suspended(sa2Codes, 1)

\* the handler prefix with the cacheInitialized check ahead of validation
PostcodePrefixReadyFirst(postcode) ==
    IF ~cacheInitialized
    THEN Returned(createErrorResponse(NotInitializedMessage), 0)
    ELSE IF validatePostcode(postcode)
    THEN Returned(ErrorExecutingTool(ValidationMessage), 0)
    ELSE LET sa2Codes == getSA2CodesForPostcode(postcode.s) IN
         IF Len(sa2Codes) = 0
         THEN Returned(createErrorResponse(NotFoundMessage), 1)
         ELSE Suspended(sa2Codes, 1)

\* handleGetSuburbStats / handleGetSupplyPipeline / handleGetGentrificationScore
\* up to the first fetch
PostcodePrefix(postcode) ==
    IF validatePostcode(postcode)
    THEN Returned(ErrorExecutingTool(ValidationMessage), 0)
    ELSE IF ~cacheInitialized
    THEN Returned(createErrorResponse(NotInitializedMessage), 0)
    ELSE LET sa2Codes == getSA2CodesForPostcode(postcode.s) IN
         IF Len(sa2Codes) = 0
         THEN Returned(createErrorResponse(NotFoundMessage), 1)
         ELSE Suspended(sa2Codes, 1)

\* region handlers that resolve the region through the concordance index
RegionPrefixResolvingRegion(region) ==
    IF validateRegion(region)
    THEN Returned(ErrorExecutingTool(RegionMessage), 0)
    ELSE IF ~cacheInitialized
    THEN Returned(createErrorResponse(NotInitializedMessage), 0)
    ELSE Suspended(getSA2CodesForPostcode(region.s), 1)

\* handleGetMortgageStress / handleGetWealthMigration /
\* handleGetInvestorSentiment up to the first fetch
RegionPrefix(region) ==
    IF validateRegion(region)
    THEN Returned(ErrorExecutingTool(RegionMessage), 0)
    ELSE Suspended(<<>>, 0)

\* the switch without its case for get_investor_sentiment
DispatchMissingCase(name, arg) ==
    IF name \in PostcodeTools THEN PostcodePrefix(arg)
    ELSE IF name \in RegionTools \ {"get_investor_sentiment"} THEN RegionPrefix(arg)
    ELSE Returned(createErrorResponse(UnknownToolMessage), 0)

\* switch (name) of the CallToolRequestSchema handler
Dispatch(name, arg) ==
    IF name \in PostcodeTools THEN PostcodePrefix(arg)
    ELSE IF name \in RegionTools THEN RegionPrefix(arg)
    ELSE Returned(createErrorResponse(UnknownToolMessage), 0)

\* supply ratio = stock > 0 ? approvals / (stock * 2) : 0, compared with
\* 0.15 and 0.03 (integer form of the same comparisons)
SupplySignal(approvals, stock) ==
    IF stock > 0 /\ 10 * approvals > 3 * stock THEN "FLOOD_RISK"
    ELSE IF stock <= 0 \/ 100 * approvals < 6 * stock THEN "BUY_SIGNAL"
    ELSE "NEUTRAL"

\* ratio = housing > 0 ? migration / housing : 0
WealthSignal(migration, housing) ==
    IF migration > 3000 /\ housing > 0 /\ 10 * migration > 8 * housing
    THEN "WEALTH_INFLUX_SHORTAGE"
    ELSE IF migration > 3000 THEN "WEALTH_INFLUX_SUPPLIED"
    ELSE IF migration > 1000 /\ housing > 0 /\ migration > housing
    THEN "MODERATE_WEALTH_TIGHT_SUPPLY"
    ELSE "STABLE_MARKET"

InvestorSignal(volume) ==
    IF ~volume.isNull /\ volume.n # 0 /\ volume.n > 150 THEN "INVESTOR_DRIVEN"
    ELSE IF ~volume.isNull /\ volume.n # 0 /\ volume.n > 80 THEN "MIXED_MARKET"
    ELSE "FHB_MARKET"

\* score = investment / (floor(income * 50) / 1000); a zero divisor gives
\* Infinity (investment > 0), -Infinity (investment < 0) or NaN
\* (investment = 0); the comparisons with 2.0 and 1.2 are cross-multiplied,
\* and turn round when the divisor is negative
GentrificationSignal(investment, estimatedIncome) ==
    IF estimatedIncome = 0
    THEN IF investment > 0 THEN "RAPID_GENTRIFICATION" ELSE "STABLE"
    ELSE IF estimatedIncome > 0
    THEN IF 1000 * investment > 2 * estimatedIncome
         THEN "RAPID_GENTRIFICATION"
         ELSE IF 10000 * investment > 12 * estimatedIncome
         THEN "GENTRIFYING"
         ELSE "STABLE"
    ELSE IF 1000 * investment < 2 * estimatedIncome
         THEN "RAPID_GENTRIFICATION"
         ELSE IF 10000 * investment < 12 * estimatedIncome
         THEN "GENTRIFYING"
         ELSE "STABLE"

OrZero(v) == IF v.isNull THEN 0 ELSE v.n

\* rest of a one-fetch handler once the fetch has resolved
FinishOneFetch(name, sa2Codes, data) ==
    IF DataErrorThrows(data) THEN ErrorExecutingTool(TypeErrorMessage)
    ELSE IF DataHasError(data) THEN createErrorResponse(FetchFailedMessage)
    ELSE IF ExtractValueThrows(data) THEN ErrorExecutingTool(TypeErrorMessage)
    ELSE createSuccessResponse(
             Payload(sa2Codes, extractValue(data), Null,
                     IF name = "get_investor_sentiment"
                     THEN InvestorSignal(extractValue(data)) ELSE ""))

\* rest of a two-fetch handler once both fetches have resolved
FinishTwoFetch(name, sa2Codes, d1, d2) ==
    IF DataErrorThrows(d1) THEN ErrorExecutingTool(TypeErrorMessage)
    ELSE IF DataHasError(d1) /\ DataErrorThrows(d2)
    THEN ErrorExecutingTool(TypeErrorMessage)
    ELSE IF DataHasError(d1) /\ DataHasError(d2)
    THEN createErrorResponse(FetchFailedMessage)
    ELSE IF ExtractValueThrows(d1) \/ ExtractValueThrows(d2)
    THEN ErrorExecutingTool(TypeErrorMessage)
    ELSE LET a == extractValue(d1)
             b == extractValue(d2) IN
         IF name = "get_wealth_migration"
         THEN createSuccessResponse(
                  Payload(sa2Codes, Num(OrZero(a)), Num(OrZero(b)),
                          WealthSignal(OrZero(a), OrZero(b))))
         ELSE IF a.isNull \/ b.isNull
         THEN createErrorResponse(InsufficientMessage)
         ELSE IF name = "get_supply_pipeline"
         THEN createSuccessResponse(
                  Payload(sa2Codes, a, b, SupplySignal(a.n, b.n)))
         ELSE createSuccessResponse(
                  Payload(sa2Codes, a, Num(b.n * 50),
                          GentrificationSignal(a.n, b.n * 50)))

NoCall == [made |-> FALSE, name |-> "", arg |-> Undefined,
           response |-> createErrorResponse(""), lookups |-> 0, fetches |-> 0]
Completed(name, arg, response, lookups, fetches) ==
    [made |-> TRUE, name |-> name, arg |-> arg, response |-> response,
     lookups |-> lookups, fetches |-> fetches]

RemoveAt(q, i) == SubSeq(q, 1, i - 1) \o SubSeq(q, i + 1, Len(q))

\* requests reach the handlers once server.connect(transport) has run, which
\* the module does after both awaited initializations
AcceptingBeforeInit == phase \in {"initCache", "initGeo", "connect", "serving"}

Accepting == phase = "serving"

\* a call that re-checks the concordance cache file and rewrites it from the
\* embedded file when it has become stale
CallToolRefreshingCache(name, arg) ==
    /\ Accepting
    /\ nCalls < MaxCalls
    /\ nCalls' = nCalls + 1
    /\ LET o == Dispatch(name, arg) IN
       IF o.done
       THEN /\ lastCall' = Completed(name, arg, o.response, o.lookups, 0)
            /\ UNCHANGED pending
       ELSE /\ pending' = Append(pending,
                              [name |-> name, arg |-> arg, sa2Codes |-> o.sa2Codes,
                               lookups |-> o.lookups, d1 |-> NoData])
            /\ UNCHANGED lastCall
    /\ LET stale == fs.pcCache.exists /\ ~UseCache(fs.pcCache) /\ fs.pcBase.readable IN
       /\ fs' = IF stale
                THEN [fs EXCEPT !.pcCache = SavedFile(@, fs.pcBase.content, TRUE)]
                ELSE fs
       /\ writeAttempts' = [writeAttempts EXCEPT
                                !["postcodes"] = IF stale THEN @ + 1 ELSE @]
    /\ UNCHANGED <<phase, tier, lastQuery, nQueries, lastList, previousStart>>
    /\ UNCHANGED indexVars

\* a tools/call request arrives and its handler runs to its first await
CallTool(name, arg) ==
    /\ Accepting
    /\ nCalls < MaxCalls
    /\ nCalls' = nCalls + 1
    /\ LET o == Dispatch(name, arg) IN
       IF o.done
       THEN /\ lastCall' = Completed(name, arg, o.response, o.lookups, 0)
            /\ UNCHANGED pending
       ELSE /\ pending' = Append(pending,
                              [name |-> name, arg |-> arg, sa2Codes |-> o.sa2Codes,
                               lookups |-> o.lookups, d1 |-> NoData])
            /\ UNCHANGED lastCall
    /\ UNCHANGED <<phase, fs, tier, writeAttempts, lastQuery, nQueries, lastList,
                   previousStart>>
    /\ UNCHANGED indexVars

\* a tools/list request arrives and is answered
ListTools ==
    /\ Accepting
    /\ nCalls < MaxCalls
    /\ nCalls' = nCalls + 1
    /\ lastList' = ListToolsResponse
    /\ UNCHANGED <<phase, fs, tier, writeAttempts, lastQuery, nQueries,
                   pending, lastCall, previousStart>>
    /\ UNCHANGED indexVars

\* a completion that takes the SA2 codes of the oldest suspended call
FetchReturnSharedCodes(i, data) ==
    /\ i \in 1..Len(pending)
    /\ LET c == pending[i] IN
       IF c.name \in TwoFetchTools /\ c.d1 = NoData
       THEN /\ pending' = [pending EXCEPT ![i].d1 = data]
            /\ UNCHANGED lastCall
       ELSE /\ pending' = RemoveAt(pending, i)
            /\ lastCall' =
                 IF c.name \in TwoFetchTools
                 THEN Completed(c.name, c.arg,
                                FinishTwoFetch(c.name, pending[1].sa2Codes, c.d1, data),
                                c.lookups, 2)
                 ELSE Completed(c.name, c.arg,
                                FinishOneFetch(c.name, pending[1].sa2Codes, data),
                                c.lookups, 1)
    /\ UNCHANGED <<phase, fs, tier, writeAttempts, lastQuery, nQueries, nCalls, lastList,
                   previousStart>>
    /\ UNCHANGED indexVars

\* the fetch a suspended handler awaits resolves; the handler runs on to its
\* next fetch or to its return
FetchReturn(i, data) ==
    /\ i \in 1..Len(pending)
    /\ LET c == pending[i] IN
       IF c.name \in TwoFetchTools /\ c.d1 = NoData
       THEN /\ pending' = [pending EXCEPT ![i].d1 = data]
            /\ UNCHANGED lastCall
       ELSE /\ pending' = RemoveAt(pending, i)
            /\ lastCall' =
                 IF c.name \in TwoFetchTools
                 THEN Completed(c.name, c.arg,
                                FinishTwoFetch(c.name, c.sa2Codes, c.d1, data),
                                c.lookups, 2)
                 ELSE Completed(c.name, c.arg,
                                FinishOneFetch(c.name, c.sa2Codes, data),
                                c.lookups, 1)
    /\ UNCHANGED <<phase, fs, tier, writeAttempts, lastQuery, nQueries, nCalls, lastList,
                   previousStart>>
    /\ UNCHANGED indexVars

\* ------------------------------------------------------------------------
\* Initial states and specifications
\* ------------------------------------------------------------------------
\* mkdirOk: whether mkdirSync of the data directory succeeds
FileSystem(dataDir, mkdirOk, pcCache, pcBase, geoCache, geoBase) ==
    [dataDir |-> dataDir, mkdirOk |-> mkdirOk, pcCache |-> pcCache,
     pcBase |-> pcBase, geoCache |-> geoCache, geoBase |-> geoBase]

FileSystems(mkdirs, pcCaches, pcBases, geoCaches, geoBases) ==
    {FileSystem(d, m, pc, pb, gc, gb) :
        d \in BOOLEAN, m \in mkdirs, pc \in pcCaches, pb \in pcBases,
        gc \in geoCaches, gb \in geoBases}

\* a cache file lives in the data directory; mkdirSync is only tried on a
\* missing directory
WellFormedFs(f) ==
    /\ (f.pcCache.exists \/ f.geoCache.exists) => f.dataDir
    /\ f.dataDir => f.mkdirOk

\* no earlier run of the process
NoStart ==
    [n |-> 0, tier |-> [d \in Datasets |-> "none"],
     writeAttempts |-> [d \in Datasets |-> 0],
     geographyCache |-> <<>>, cacheInitialized |-> FALSE, cacheError |-> NoError,
     geoFeatures |-> NullFeatures, geoBoundariesInitialized |-> FALSE,
     geoBoundariesError |-> NoError]

\* module state before the start-up sequence runs
InitWith(fileSystems) ==
    /\ phase = "initCache"
    /\ fs \in {f \in fileSystems : WellFormedFs(f)}
    /\ geographyCache = <<>>
    /\ cacheInitialized = FALSE
    /\ cacheError = NoError
    /\ geoFeatures = NullFeatures
    /\ geoBoundariesInitialized = FALSE
    /\ geoBoundariesError = NoError
    /\ tier = [d \in Datasets |-> "none"]
    /\ writeAttempts = [d \in Datasets |-> 0]
    /\ lastQuery = NoQuery
    /\ nQueries = 0
    /\ pending = <<>>
    /\ lastCall = NoCall
    /\ nCalls = 0
    /\ lastList = <<>>
    /\ previousStart = NoStart

\* ------------------------------------------------------------------------
\* Process lifetime: the clock and the next start
\* ------------------------------------------------------------------------
\* Time goes by at any moment, between the two loaders of one start-up as
\* well as while the server runs or after it has ended: each loader reads
\* Date.now() itself and compares it with the modification time of its own
\* file, so a file written by the first loader is older than the one the
\* second loader writes once time has passed between them.  Ages are
\* followed on a grid next to a new file and around the maximum age, and no
\* further than one second past it (every older file is stale alike).
AgeGrid == {0, 1, cacheMaxAge - 1, cacheMaxAge, cacheMaxAge + 1}
AgeAfter(age, elapsed) ==
    IF age + elapsed > cacheMaxAge + 1 THEN cacheMaxAge + 1 ELSE age + elapsed

TimePasses(elapsed) ==
    /\ \/ fs.pcCache.exists /\ fs.pcCache.age <= cacheMaxAge
       \/ fs.geoCache.exists /\ fs.geoCache.age <= cacheMaxAge
    /\ fs.pcCache.exists => AgeAfter(fs.pcCache.age, elapsed) \in AgeGrid
    /\ fs.geoCache.exists => AgeAfter(fs.geoCache.age, elapsed) \in AgeGrid
    /\ fs' = [fs EXCEPT
                 !.pcCache.age = IF fs.pcCache.exists THEN AgeAfter(@, elapsed) ELSE @,
                 !.geoCache.age = IF fs.geoCache.exists THEN AgeAfter(@, elapsed) ELSE @]
    /\ UNCHANGED <<phase, tier, writeAttempts, previousStart>>
    /\ UNCHANGED indexVars
    /\ UNCHANGED serveVars

\* The process ends and is started again: the module is evaluated afresh
\* (every module-level variable at its declared initial value) over the
\* files the earlier run left on disk.
ProcessStart ==
    /\ phase \in {"serving", "crashed"}
    /\ previousStart.n < MaxRestarts
    /\ previousStart' =
          [n |-> previousStart.n + 1, tier |-> tier, writeAttempts |-> writeAttempts,
           geographyCache |-> geographyCache, cacheInitialized |-> cacheInitialized,
           cacheError |-> cacheError, geoFeatures |-> geoFeatures,
           geoBoundariesInitialized |-> geoBoundariesInitialized,
           geoBoundariesError |-> geoBoundariesError]
    /\ phase' = "initCache"
    /\ geographyCache' = <<>>
    /\ cacheInitialized' = FALSE
    /\ cacheError' = NoError
    /\ geoFeatures' = NullFeatures
    /\ geoBoundariesInitialized' = FALSE
    /\ geoBoundariesError' = NoError
    /\ tier' = [d \in Datasets |-> "none"]
    /\ writeAttempts' = [d \in Datasets |-> 0]
    /\ lastQuery' = NoQuery
    /\ nQueries' = 0
    /\ pending' = <<>>
    /\ lastCall' = NoCall
    /\ nCalls' = 0
    /\ lastList' = <<>>
    /\ UNCHANGED fs

AbsentPc == CacheFile(FALSE, TRUE, 0, TRUE, CsvEmpty, TRUE)
AbsentGeo == CacheFile(FALSE, TRUE, 0, TRUE, GeoEmpty, TRUE)

\* Serving: a first start (no cache files, no data directory yet).  The
\* tool handlers read the concordance index only, so the boundary file varies
\* over all its kinds with an unreadable concordance file and over the
\* parsable kinds with a readable one.
Init ==
    InitWith({f \in FileSystems({TRUE}, {AbsentPc},
                                {BaseFile(FALSE, CsvEmpty), BaseFile(TRUE, CsvMain)},
                                {AbsentGeo},
                                {BaseFile(FALSE, GeoEmpty), BaseFile(TRUE, GeoMain),
                                 BaseFile(TRUE, GeoNoFeatures)}) :
                 /\ ~f.dataDir
                 /\ f.pcBase.readable => f.geoBase.readable})

Next ==
    \/ initializeGeographyCache
    \/ initializeGeoBoundaries
    \/ connect
    \/ \E name \in ToolNames : \E arg \in ArgsFor(name) : CallTool(name, arg)
    \/ \E i \in 1..MaxCalls, data \in FetchResults : FetchReturn(i, data)
    \/ ListTools

Spec == Init /\ [][Next]_vars

\* Start-up over every combination of cache and embedded files
InitStartup == InitWith(FileSystems(BOOLEAN, PcCacheFiles, PcBaseFiles, GeoCacheFiles, GeoBaseFiles))

NextStartup ==
    \/ initializeGeographyCache
    \/ initializeGeoBoundaries
    \/ connect

SpecStartup == InitStartup /\ [][NextStartup]_vars

\* Start-up with fairness.  One file of each outcome: cache absent (write
\* succeeding or failing), stat failure, stale, fresh but unreadable, fresh
\* and readable, fresh and unparsable; embedded file unreadable, well formed,
\* unparsable, without a features list.
TermPcCaches ==
    {CacheFile(FALSE, TRUE, 0, TRUE, CsvEmpty, w) : w \in BOOLEAN}
    \cup {CacheFile(TRUE, FALSE, 0, TRUE, CsvOld, TRUE),
          CacheFile(TRUE, TRUE, cacheMaxAge + 1, TRUE, CsvOld, FALSE),
          CacheFile(TRUE, TRUE, 0, FALSE, CsvOld, TRUE),
          CacheFile(TRUE, TRUE, 0, TRUE, CsvOld, TRUE)}
TermPcBases == {BaseFile(FALSE, CsvEmpty), BaseFile(TRUE, CsvMain)}
TermGeoCaches ==
    {CacheFile(FALSE, TRUE, 0, TRUE, GeoEmpty, w) : w \in BOOLEAN}
    \cup {CacheFile(TRUE, FALSE, 0, TRUE, GeoOld, TRUE),
          CacheFile(TRUE, TRUE, cacheMaxAge + 1, TRUE, GeoOld, FALSE),
          CacheFile(TRUE, TRUE, 0, FALSE, GeoOld, TRUE),
          CacheFile(TRUE, TRUE, 0, TRUE, GeoOld, TRUE),
          CacheFile(TRUE, TRUE, 0, TRUE, GeoSyntax, TRUE)}
TermGeoBases ==
    {BaseFile(FALSE, GeoEmpty), BaseFile(TRUE, GeoMain),
     BaseFile(TRUE, GeoSyntax), BaseFile(TRUE, GeoNoFeatures)}

InitStartupFair ==
    InitWith(FileSystems(BOOLEAN, TermPcCaches, TermPcBases, TermGeoCaches, TermGeoBases))

\* The start-up sequence is straight-line code over synchronous file
\* operations, each step awaited in turn: a step that can run does run.
SpecStartupFair == InitStartupFair /\ [][NextStartup]_vars /\ WF_vars(NextStartup)

\* Reverse geocoding over every boundary file
InitGeo ==
    InitWith(FileSystems({TRUE}, {AbsentPc},
                         {BaseFile(FALSE, CsvEmpty), BaseFile(TRUE, CsvMain),
                          BaseFile(TRUE, CsvShared)},
                         {AbsentGeo, CacheFile(TRUE, TRUE, 0, TRUE, GeoOld, TRUE)},
                         GeoBaseFiles))

NextGeo ==
    \/ initializeGeographyCache
    \/ initializeGeoBoundaries
    \/ connect
    \/ \E latitude \in Latitudes, longitude \in Longitudes :
          QueryCoordinate(latitude, longitude)
    \/ \E latitude \in Latitudes, longitude \in Longitudes :
          QueryPostcode(latitude, longitude)

SpecGeo == InitGeo /\ [][NextGeo]_vars

\* Postcode and coordinate lookups side by side on one server
LookupLatitudes == {1, 3}
LookupLongitudes == {0, 100}
LookupArgs == {Str(PC2000), Str(PC2060), Str(<<"9", "9", "9", "9">>)}
LookupFetchResults == {Data("error", 0), Data("value", 4000)}

InitLookup ==
    InitWith(FileSystems({TRUE}, {AbsentPc},
                         {BaseFile(FALSE, CsvEmpty), BaseFile(TRUE, CsvMain)},
                         {AbsentGeo},
                         {BaseFile(FALSE, GeoEmpty), BaseFile(TRUE, GeoMain)}))

NextLookup ==
    \/ initializeGeographyCache
    \/ initializeGeoBoundaries
    \/ connect
    \/ \E arg \in LookupArgs : CallTool("get_suburb_stats", arg)
    \/ \E i \in 1..MaxCalls, data \in LookupFetchResults : FetchReturn(i, data)
    \/ \E latitude \in LookupLatitudes, longitude \in LookupLongitudes :
          QueryCoordinate(latitude, longitude)
    \/ \E latitude \in LookupLatitudes, longitude \in LookupLongitudes :
          QueryPostcode(latitude, longitude)

SpecLookup == InitLookup /\ [][NextLookup]_vars

\* Successive runs of the process over the same disk.  Cache files: absent
\* (write succeeding or failing), stale and rewritable (readable or not),
\* fresh but unreadable, fresh and readable, fresh and unparsable; embedded
\* files as in the start-up with fairness.
Elapsed == {1, cacheMaxAge - 1}
RestartPcCaches ==
    {CacheFile(FALSE, TRUE, 0, TRUE, CsvEmpty, w) : w \in BOOLEAN}
    \cup {CacheFile(TRUE, TRUE, cacheMaxAge, r, CsvOld, TRUE) : r \in BOOLEAN}
    \cup {CacheFile(TRUE, TRUE, 0, FALSE, CsvOld, TRUE),
          CacheFile(TRUE, TRUE, 0, TRUE, CsvOld, TRUE),
          CacheFile(TRUE, TRUE, cacheMaxAge - 1, TRUE, CsvOld, TRUE)}
RestartGeoCaches ==
    {CacheFile(FALSE, TRUE, 0, TRUE, GeoEmpty, w) : w \in BOOLEAN}
    \cup {CacheFile(TRUE, TRUE, cacheMaxAge, r, GeoOld, TRUE) : r \in BOOLEAN}
    \cup {CacheFile(TRUE, TRUE, 0, FALSE, GeoOld, TRUE),
          CacheFile(TRUE, TRUE, 0, TRUE, GeoOld, TRUE),
          CacheFile(TRUE, TRUE, cacheMaxAge - 1, TRUE, GeoSyntax, TRUE)}

InitRestart ==
    InitWith(FileSystems(BOOLEAN, RestartPcCaches, TermPcBases,
                         RestartGeoCaches, TermGeoBases))

NextRestart ==
    \/ initializeGeographyCache
    \/ initializeGeoBoundaries
    \/ connect
    \/ \E elapsed \in Elapsed : TimePasses(elapsed)
    \/ ProcessStart

SpecRestart == InitRestart /\ [][NextRestart]_vars

\* A server that answers postcode calls and reverse lookups while its cache
\* files age, and is started again.  Cache files: absent, one second short
\* of the maximum age, stale.
InitLifetime ==
    InitWith({f \in FileSystems(
                        {TRUE},
                        {AbsentPc,
                         CacheFile(TRUE, TRUE, cacheMaxAge - 1, TRUE, CsvOld, TRUE),
                         CacheFile(TRUE, TRUE, cacheMaxAge, TRUE, CsvOld, TRUE)},
                        {BaseFile(TRUE, CsvMain)},
                        {AbsentGeo,
                         CacheFile(TRUE, TRUE, cacheMaxAge - 1, TRUE, GeoOld, TRUE)},
                        {BaseFile(TRUE, GeoMain)}) :
                 f.dataDir})

NextLifetime ==
    \/ initializeGeographyCache
    \/ initializeGeoBoundaries
    \/ connect
    \/ \E arg \in {Str(PC2000), Str(PC2060)} : CallTool("get_suburb_stats", arg)
    \/ \E i \in 1..MaxCalls : FetchReturn(i, Data("value", 4000))
    \/ \E latitude \in LookupLatitudes, longitude \in LookupLongitudes :
          QueryPostcode(latitude, longitude)
    \/ \E elapsed \in Elapsed : TimePasses(elapsed)
    \/ ProcessStart

SpecLifetime == InitLifetime /\ [][NextLifetime]_vars

\* The tools that combine two ABS figures, over every fetch outcome and a
\* negative figure
NextFigures ==
    \/ initializeGeographyCache
    \/ initializeGeoBoundaries
    \/ connect
    \/ \E name \in {"get_wealth_migration", "get_supply_pipeline",
                    "get_gentrification_score"} :
          CallTool(name, Str(PC2000))
    \/ \E i \in 1..MaxCalls, data \in FetchResults \cup {Data("value", -5)} :
          FetchReturn(i, data)

SpecFigures == Init /\ [][NextFigures]_vars

\* ------------------------------------------------------------------------
\* Type invariant
\* ------------------------------------------------------------------------
TypeOK ==
    /\ phase \in {"initCache", "initGeo", "connect", "serving", "crashed"}
    /\ cacheInitialized \in BOOLEAN
    /\ geoBoundariesInitialized \in BOOLEAN
    /\ cacheError \in {NoError, CacheErrorText}
    /\ geoBoundariesError \in {NoError, GeoErrorText}
    /\ tier \in [Datasets -> {"none", "cached", "baseline"}]
    /\ nCalls \in 0..MaxCalls
    /\ nQueries \in 0..MaxQueries
    /\ Len(pending) <= MaxCalls
    /\ lastList \in {<<>>, ListToolsResponse}
    /\ previousStart.n \in 0..MaxRestarts

\* ========================================================================
\* Properties
\* ========================================================================
FourDigitStrings == [1..4 -> Digits]
WellFormedPostcode(arg) == arg.defined /\ arg.s \in FourDigitStrings

\* C1: a postcode-taking tool called with a postcode that does not match
\* ^\d{4}$ answers with the validation error and never reads the postcode
\* map or requests the API, whether the index is ready or not; such a call
\* is never found suspended at a fetch.
C1_MalformedPostcodeRejected ==
    /\ (lastCall.made /\ lastCall.name \in PostcodeTools
            /\ ~WellFormedPostcode(lastCall.arg))
         => /\ lastCall.response.isError
            /\ lastCall.response.text = ValidationMessage
            /\ lastCall.lookups = 0
            /\ lastCall.fetches = 0
    /\ \A i \in 1..Len(pending) :
         pending[i].name \in PostcodeTools => WellFormedPostcode(pending[i].arg)

\* a three-digit postcode was rejected while the index was ready to be read
C1_Witness ==
    /\ lastCall.made
    /\ lastCall.name = "get_supply_pipeline"
    /\ lastCall.arg = Str(<<"8", "0", "0">>)
    /\ cacheInitialized
    /\ lastCall.response.text = ValidationMessage

\* C2: for a well-formed postcode, a postcode tool answers "not initialized"
\* when the concordance index did not build and "not found" when the index
\* is built and has no entry for the postcode; the two answers differ and
\* neither is given in the other case.
C2_UnavailableVersusNotFound ==
    (lastCall.made /\ lastCall.name \in PostcodeTools /\ WellFormedPostcode(lastCall.arg))
      => /\ ~cacheInitialized =>
              /\ lastCall.response.isError
              /\ lastCall.response.text = NotInitializedMessage
              /\ lastCall.lookups = 0
         /\ (cacheInitialized /\ lastCall.arg.s \notin MapKeys(geographyCache)) =>
              /\ lastCall.response.isError
              /\ lastCall.response.text = NotFoundMessage
         /\ (cacheInitialized /\ lastCall.arg.s \in MapKeys(geographyCache)) =>
              lastCall.response.text \notin {NotInitializedMessage, NotFoundMessage}
         /\ NotInitializedMessage # NotFoundMessage

\* postcode 2000 was asked for after the concordance load had failed
C2_Witness ==
    /\ lastCall.made
    /\ lastCall.name = "get_suburb_stats"
    /\ lastCall.arg = Str(PC2000)
    /\ ~cacheInitialized
    /\ cacheError # NoError
    /\ lastCall.response.text = NotInitializedMessage

\* postcode 9999 was asked for with the index built from a file without it
C2_WitnessNotFound ==
    /\ lastCall.made
    /\ lastCall.arg = Str(<<"9", "9", "9", "9">>)
    /\ cacheInitialized
    /\ lastCall.response.text = NotFoundMessage

CacheInitFinished == cacheInitialized \/ cacheError # NoError
GeoInitFinished == geoBoundariesInitialized \/ geoBoundariesError # NoError

\* C7: whenever a tool call has been dispatched (completed or suspended) both
\* initializations have finished, each ready or failed; the boundary
\* initialization finishes after the concordance one, and the transport is
\* connected only after both.
C7_NoCallBeforeInit ==
    /\ (nCalls > 0 \/ lastCall.made \/ pending # <<>>)
          => CacheInitFinished /\ GeoInitFinished
    /\ phase \in {"serving", "crashed"} => CacheInitFinished /\ GeoInitFinished
    /\ GeoInitFinished => CacheInitFinished

\* a call was answered by a server whose concordance load had failed
C7_Witness ==
    /\ lastCall.made
    /\ phase = "serving"
    /\ ~cacheInitialized
    /\ geoBoundariesInitialized

\* a cache file whose modification time can be read and is under 30 days old
FreshCache(f) == f.exists /\ f.statOk /\ f.age < 30 * 24 * 60 * 60

PcInitStep == phase = "initCache" /\ phase' # phase
GeoInitStep == phase = "initGeo" /\ phase' # phase

\* C4: each loader takes the cache tier exactly when the cache file exists
\* and its age is under 30 days, and the baseline tier otherwise; the index
\* is then built from the content of the file of that tier, so a cache file
\* aged 30 days or more is never the source of the index.
C4_CacheUsedIffFresh ==
    [][ /\ PcInitStep =>
             /\ tier'["postcodes"] = "cached" <=> FreshCache(fs.pcCache)
             /\ tier'["postcodes"] = "baseline" <=> ~FreshCache(fs.pcCache)
             /\ cacheInitialized' =>
                  geographyCache' =
                     ParseCsv(<<>>, IF FreshCache(fs.pcCache)
                                    THEN fs.pcCache.content ELSE fs.pcBase.content)
        /\ GeoInitStep =>
             /\ tier'["boundaries"] = "cached" <=> FreshCache(fs.geoCache)
             /\ tier'["boundaries"] = "baseline" <=> ~FreshCache(fs.geoCache)
             /\ geoBoundariesInitialized' =>
                  geoFeatures'.features =
                     IF FreshCache(fs.geoCache)
                     THEN fs.geoCache.content.features ELSE fs.geoBase.content.features
      ]_vars

\* a well-formed cache file exactly 30 days old is still on disk, and the
\* index was built from the embedded file
C4_Witness ==
    /\ fs.pcCache.exists /\ fs.pcCache.statOk /\ fs.pcCache.readable
    /\ fs.pcCache.age = 30 * 24 * 60 * 60
    /\ tier["postcodes"] = "baseline"
    /\ cacheInitialized
    /\ geographyCache = ParseCsv(<<>>, CsvMain)

SaveFails(f, cacheFile) == (~f.dataDir /\ ~f.mkdirOk) \/ ~cacheFile.writable

\* C5: when a baseline load cannot create the cache directory or write the
\* cache file, the index is still built from the baseline content, the ready
\* flag is set and no error is recorded (for a baseline file that parses and,
\* for boundaries, carries a features list).
C5_SaveFailureNotFatal ==
    [][ /\ (PcInitStep /\ ~FreshCache(fs.pcCache) /\ fs.pcBase.readable
               /\ SaveFails(fs, fs.pcCache)) =>
             /\ cacheInitialized'
             /\ cacheError' = NoError
             /\ geographyCache' = ParseCsv(<<>>, fs.pcBase.content)
             /\ fs'.pcCache = fs.pcCache
        /\ (GeoInitStep /\ ~FreshCache(fs.geoCache) /\ fs.geoBase.readable
               /\ fs.geoBase.content.syntaxOk /\ fs.geoBase.content.kind # "object"
               /\ SaveFails(fs, fs.geoCache)) =>
             /\ geoBoundariesInitialized'
             /\ geoBoundariesError' = NoError
             /\ geoFeatures'.features = fs.geoBase.content.features
             /\ fs'.geoCache = fs.geoCache
      ]_vars

\* both indexes are ready from the embedded files although the data
\* directory could not be created and nothing was written
C5_Witness ==
    /\ phase = "connect"
    /\ ~fs.dataDir /\ ~fs.mkdirOk
    /\ tier["postcodes"] = "baseline" /\ tier["boundaries"] = "baseline"
    /\ writeAttempts["postcodes"] = 0 /\ writeAttempts["boundaries"] = 0
    /\ cacheInitialized /\ cacheError = NoError
    /\ geoBoundariesInitialized /\ geoBoundariesError = NoError
    /\ geoFeatures.features = GeoMain.features

PcLoadSucceeds(f) ==
    IF FreshCache(f.pcCache) THEN f.pcCache.readable ELSE f.pcBase.readable
GeoLoadParseSucceeds(f) ==
    IF FreshCache(f.geoCache)
    THEN f.geoCache.readable /\ f.geoCache.content.syntaxOk
    ELSE f.geoBase.readable /\ f.geoBase.content.syntaxOk

\* C6: the concordance index becomes ready exactly when its own file is read,
\* the boundary index exactly when its own file is read and parsed, whatever
\* happened to the other; each initializer records a failure of its own
\* load, leaves the other sub-index's flag, content and error untouched, and
\* both have run by the time the transport is connected.
C6_IndependentFailure ==
    /\ [](phase \in {"connect", "serving", "crashed"}
             => CacheInitFinished /\ GeoInitFinished)
    /\ [][ /\ PcInitStep =>
                /\ cacheInitialized' <=> PcLoadSucceeds(fs)
                /\ cacheError' # NoError <=> ~PcLoadSucceeds(fs)
                /\ UNCHANGED <<geoFeatures, geoBoundariesInitialized, geoBoundariesError>>
           /\ GeoInitStep =>
                /\ geoBoundariesInitialized' <=> GeoLoadParseSucceeds(fs)
                /\ ~GeoLoadParseSucceeds(fs) => geoBoundariesError' # NoError
                /\ UNCHANGED <<geographyCache, cacheInitialized, cacheError>>
         ]_vars

\* the concordance load failed and the boundary index is ready without error
C6_Witness ==
    /\ phase = "connect"
    /\ ~cacheInitialized /\ cacheError # NoError
    /\ geoBoundariesInitialized /\ geoBoundariesError = NoError
    /\ Len(geoFeatures.features) > 0

\* ------------------------------------------------------------------------
\* Reverse geocoding properties
\* ------------------------------------------------------------------------
OutOfRange(latitude, longitude) ==
    latitude < -90 \/ latitude > 90 \/ longitude < -180 \/ longitude > 180

\* what the caller receives: null, or the code and name
ReturnedValue(r) == [isNull |-> r.isNull, sa2Code |-> r.sa2Code, sa2Name |-> r.sa2Name]

\* the last query ran on a loaded boundary collection
QueriedLoadedCollection ==
    lastQuery.made /\ geoBoundariesInitialized /\ geoFeatures.kind = "collection"

InRect(latitude, longitude, r) ==
    /\ ~r.bad
    /\ r.w <= longitude /\ longitude <= r.e
    /\ r.s <= latitude /\ latitude <= r.n

\* the geometry of the feature contains the point
GeomContains(f, latitude, longitude) ==
    \/ f.type = "Polygon" /\ InRect(latitude, longitude, f.polys[1])
    \/ f.type = "MultiPolygon"
          /\ \E j \in 1..Len(f.polys) : InRect(latitude, longitude, f.polys[j])

\* testing the polygons of the feature in order reaches one that contains
\* the point before one whose evaluation raises an error
ContainsBeforeError(f, latitude, longitude) ==
    \/ f.type = "Polygon" /\ InRect(latitude, longitude, f.polys[1])
    \/ f.type = "MultiPolygon"
          /\ \E j \in 1..Len(f.polys) :
                /\ InRect(latitude, longitude, f.polys[j])
                /\ \A k \in 1..(j - 1) : ~f.polys[k].bad

FirstOf(S) == IF S = {} THEN 0 ELSE CHOOSE i \in S : \A j \in S : i <= j

FirstContaining(latitude, longitude) ==
    FirstOf({i \in 1..Len(geoFeatures.features) :
                GeomContains(geoFeatures.features[i], latitude, longitude)})
FirstContainingBeforeError(latitude, longitude) ==
    FirstOf({i \in 1..Len(geoFeatures.features) :
                ContainsBeforeError(geoFeatures.features[i], latitude, longitude)})

ResultIsFeature(r, i) ==
    IF i = 0 THEN r.isNull /\ r.site = "noMatch"
    ELSE /\ ~r.isNull
         /\ r.sa2Code = geoFeatures.features[i].SA2_CODE
         /\ r.sa2Name = geoFeatures.features[i].SA2_NAME

\* C3 (as claimed): a query with |latitude| > 90 or |longitude| > 180 is
\* answered by the range check, before the state of the boundary index is
\* consulted, in every state of that index.
C3_OutOfRangeBeforeIndex ==
    (lastQuery.made /\ OutOfRange(lastQuery.latitude, lastQuery.longitude))
       => lastQuery.result.site = "invalid"

\* C8 (as claimed): for a valid coordinate, a containing polygon of a ready
\* boundary index gives that region; otherwise, when the loaded data offer at
\* least one representative coordinate (a Point feature or a well-formed
\* polygon), the nearest one is returned, so the result is not empty.
C8_ContainmentThenNearest ==
    (QueriedLoadedCollection /\ ~OutOfRange(lastQuery.latitude, lastQuery.longitude))
       => LET i == FirstContainingBeforeError(lastQuery.latitude, lastQuery.longitude)
              candidates ==
                 {k \in 1..Len(geoFeatures.features) :
                     \/ geoFeatures.features[k].type = "Point"
                     \/ \E j \in 1..Len(geoFeatures.features[k].polys) :
                           ~geoFeatures.features[k].polys[j].bad}
          IN /\ i # 0 => ResultIsFeature(lastQuery.result, i)
             /\ (i = 0 /\ candidates # {}) => ~lastQuery.result.isNull

\* C9 (as claimed): for a valid coordinate, the value returned when no index
\* is ready differs from the value returned when a ready index has no match.
C9_UnavailableDistinctFromNoMatch ==
    (lastQuery.made /\ ~geoBoundariesInitialized
        /\ ~OutOfRange(lastQuery.latitude, lastQuery.longitude))
       => ReturnedValue(lastQuery.result) # ReturnedValue(NullResult("noMatch", 0))

\* C10 (as claimed): on a loaded collection a valid coordinate gives the
\* first feature in load order whose polygon, or any of whose member
\* polygons, contains the point, and none exactly when there is no such
\* feature.
C10_FirstContainingFeature ==
    (QueriedLoadedCollection /\ ~OutOfRange(lastQuery.latitude, lastQuery.longitude))
       => ResultIsFeature(lastQuery.result,
                          FirstContaining(lastQuery.latitude, lastQuery.longitude))

\* C10 (amended): on a loaded collection a valid coordinate gives the first
\* feature in load order for which testing its polygon, or its member
\* polygons in order, reaches a polygon containing the point before one whose
\* evaluation raises an error; it gives none, without error, exactly when no
\* loaded feature is such.
C10_FirstContainingBeforeError ==
    (QueriedLoadedCollection /\ ~OutOfRange(lastQuery.latitude, lastQuery.longitude))
       => ResultIsFeature(lastQuery.result,
                          FirstContainingBeforeError(lastQuery.latitude, lastQuery.longitude))

\* a point inside two overlapping features resolved to the one loaded first
C10_Witness ==
    /\ QueriedLoadedCollection
    /\ geoFeatures.features = GeoMain.features
    /\ lastQuery.latitude = 1 /\ lastQuery.longitude = 100
    /\ GeomContains(FOverlap, 1, 100)
    /\ lastQuery.result.sa2Code = SA11

\* ------------------------------------------------------------------------
\* Concordance lookup properties
\* ------------------------------------------------------------------------
\* text the concordance index was built from
PcSourceText ==
    IF tier["postcodes"] = "cached" THEN fs.pcCache.content ELSE fs.pcBase.content

\* fields of a data row: the line and its first two fields, each trimmed
RowFields(rawLine) ==
    LET parts == Split(Trim(rawLine), ",") IN
    [n |-> Len(parts),
     postcode |-> Trim(parts[1]),
     sa2Code |-> IF Len(parts) >= 2 THEN Trim(parts[2]) ELSE <<>>]

\* the rows after the header that carry the postcode and a code, in file order
RECURSIVE CodesOfRows(_, _, _)
CodesOfRows(lines, postcode, i) ==
    IF i > Len(lines) THEN <<>>
    ELSE LET r == RowFields(lines[i]) IN
         (IF r.n >= 2 /\ r.postcode = postcode /\ r.sa2Code # <<>>
          THEN <<r.sa2Code>> ELSE <<>>)
         \o CodesOfRows(lines, postcode, i + 1)

ProbePostcodes == {PC2000, PC2060, PC2010, <<"9", "9", "9", "9">>}

\* C11: once the concordance index is built, the lookup of a postcode gives
\* the SA2 codes of the rows after the header line that carry the postcode,
\* one entry per row, in file order, repeated codes kept.
C11_LookupKeepsFileOrder ==
    cacheInitialized =>
        \A p \in ProbePostcodes :
            getSA2CodesForPostcode(p) = CodesOfRows(Split(PcSourceText, "\n"), p, 2)

\* a file naming 2000 -> 12 on two rows gives the code twice
C11_Witness ==
    /\ cacheInitialized
    /\ PcSourceText = CsvMessy
    /\ getSA2CodesForPostcode(PC2000) = <<SA12, SA12>>
    /\ getSA2CodesForPostcode(PC2060) = <<SA11>>

\* postcode 2000 on two rows with different codes, in file order
C11_WitnessOrder ==
    /\ cacheInitialized
    /\ PcSourceText = CsvMain
    /\ getSA2CodesForPostcode(PC2000) = <<SA11, SA12>>

\* ------------------------------------------------------------------------
\* Tool catalogue properties
\* ------------------------------------------------------------------------
SixTools ==
    {"get_suburb_stats", "get_mortgage_stress", "get_supply_pipeline",
     "get_wealth_migration", "get_investor_sentiment", "get_gentrification_score"}

\* C17: a tools/list response names exactly the six tools, each once,
\* whether the indexes are ready or failed; a completed call carries the
\* unknown-tool error exactly when its name is not one of the six, and only
\* calls to the six are ever found waiting for the API.
C17_SixToolsListedAndDispatched ==
    /\ lastList # <<>> =>
          /\ Len(lastList) = 6
          /\ {lastList[i] : i \in 1..Len(lastList)} = SixTools
    /\ lastCall.made =>
          (lastCall.response.text = UnknownToolMessage <=> lastCall.name \notin SixTools)
    /\ \A i \in 1..Len(pending) : pending[i].name \in SixTools

\* with the concordance index failed the six tools were listed and an
\* unlisted name was answered unknown
C17_Witness ==
    /\ lastList = ListToolsResponse
    /\ ~cacheInitialized
    /\ lastCall.made /\ lastCall.name = "get_all_statistics"
    /\ lastCall.response.isError /\ lastCall.response.text = UnknownToolMessage

\* a listed tool that takes no postcode is waiting for the API
C17_WitnessListedDispatched ==
    /\ lastList = ListToolsResponse
    /\ Len(pending) = 1 /\ pending[1].name = "get_investor_sentiment"

\* C16 (as claimed): a get_location_stats call is dispatched to a location
\* lookup and is never answered with the unknown-tool error.
C16_LocationStatsDispatched ==
    (lastCall.made /\ lastCall.name = "get_location_stats")
       => lastCall.response.text # UnknownToolMessage

\* ------------------------------------------------------------------------
\* Lookup stability properties
\* ------------------------------------------------------------------------
\* C12: after initialization no lookup step changes an index, a flag or an
\* error; so the result a coordinate lookup returned is the result the same
\* lookup returns in every later state, and the SA2 codes a postcode call
\* found, or the not-found answer it gave, are what the same postcode gives
\* in every later state, whatever was looked up in between.
C12_LookupsIdempotent ==
    /\ [](lastQuery.made =>
             lastQuery.result = latLongToSA2(lastQuery.latitude, lastQuery.longitude))
    /\ [](\A i \in 1..Len(pending) :
             pending[i].name \in PostcodeTools =>
                pending[i].sa2Codes = getSA2CodesForPostcode(pending[i].arg.s))
    /\ []((lastCall.made /\ lastCall.name \in PostcodeTools) =>
             (lastCall.response.text = NotFoundMessage
                <=> (cacheInitialized /\ getSA2CodesForPostcode(lastCall.arg.s) = <<>>)))
    /\ [][phase = "serving" => UNCHANGED indexVars]_vars

\* two coordinate lookups were made, the last one inside two overlapping
\* regions, and two calls for postcode 2000 hold the same codes
C12_Witness ==
    /\ nQueries = 2
    /\ lastQuery.latitude = 1 /\ lastQuery.longitude = 100
    /\ lastQuery.result.sa2Code = SA11
    /\ Len(pending) = 2
    /\ pending[1].arg = Str(PC2000) /\ pending[2].arg = Str(PC2000)
    /\ pending[1].sa2Codes = <<SA11, SA12>>
    /\ pending[2].sa2Codes = pending[1].sa2Codes

\* ------------------------------------------------------------------------
\* Call handler properties
\* ------------------------------------------------------------------------
ErrorTexts ==
    {ValidationMessage, RegionMessage, TypeErrorMessage, NotInitializedMessage,
     NotFoundMessage, UnknownToolMessage, FetchFailedMessage, InsufficientMessage}

StructuredResponse(r) ==
    \/ r.isError /\ r.text \in ErrorTexts /\ r.payload = NoPayload
    \/ ~r.isError /\ r.text = "json"

\* C13: every completed tool call carries a success envelope or an error
\* envelope with isError set; a call suspended at a fetch can complete
\* whatever the fetch resolves to (error object, null, a body without
\* series or observations, a value); and no call makes a serving server stop
\* serving.
C13_AlwaysStructuredResponse ==
    /\ [](lastCall.made => StructuredResponse(lastCall.response))
    /\ [](\A i \in 1..Len(pending) : \A data \in FetchResults :
             ENABLED FetchReturn(i, data))
    /\ [][phase = "serving" => phase' = "serving"]_vars

\* a call whose fetch resolved to a body the handler cannot read was
\* answered with an error envelope, and a later call is being handled
C13_Witness ==
    /\ lastCall.made
    /\ lastCall.fetches > 0
    /\ lastCall.response = createErrorResponse(TypeErrorMessage)
    /\ nCalls = 2
    /\ Len(pending) = 1

PostcodePresent(arg) == arg.s \in MapKeys(geographyCache)

\* C14: a postcode tool checks the postcode format, then the ready flag,
\* then the presence of the postcode, and requests the API only after all
\* three: a call rejected at any of the three made no request, a malformed
\* postcode gets the validation error whether or not the index is ready, and
\* the postcode map is read only by calls that passed the first two checks.
C14_ChecksInOrderBeforeFetch ==
    /\ (lastCall.made /\ lastCall.name \in PostcodeTools) =>
          /\ ~WellFormedPostcode(lastCall.arg) =>
                /\ lastCall.response.text = ValidationMessage
                /\ lastCall.lookups = 0 /\ lastCall.fetches = 0
          /\ (WellFormedPostcode(lastCall.arg) /\ ~cacheInitialized) =>
                /\ lastCall.response.text = NotInitializedMessage
                /\ lastCall.lookups = 0 /\ lastCall.fetches = 0
          /\ (WellFormedPostcode(lastCall.arg) /\ cacheInitialized
                 /\ ~PostcodePresent(lastCall.arg)) =>
                /\ lastCall.response.text = NotFoundMessage
                /\ lastCall.lookups = 1 /\ lastCall.fetches = 0
          /\ lastCall.fetches > 0 =>
                /\ WellFormedPostcode(lastCall.arg)
                /\ cacheInitialized
                /\ PostcodePresent(lastCall.arg)
    /\ \A i \in 1..Len(pending) :
          pending[i].name \in PostcodeTools =>
             /\ WellFormedPostcode(pending[i].arg)
             /\ cacheInitialized
             /\ PostcodePresent(pending[i].arg)

\* a five-digit postcode was reported as a validation error by a server
\* whose concordance index had failed to build
C14_Witness ==
    /\ lastCall.made
    /\ lastCall.name = "get_gentrification_score"
    /\ lastCall.arg = Str(<<"9", "9", "9", "9", "9">>)
    /\ ~cacheInitialized /\ cacheError # NoError
    /\ lastCall.response.text = ValidationMessage
    /\ lastCall.fetches = 0

\* the SA2 codes a call works with: those of its postcode, none for a region
CodesAlone(name, arg) ==
    IF name \in PostcodeTools THEN getSA2CodesForPostcode(arg.s) ELSE <<>>

\* the response the suspended call c gives when its last fetch resolves to
\* data and nothing else is running
CompletedAlone(c, data) ==
    IF c.name \in TwoFetchTools
    THEN Completed(c.name, c.arg,
                   FinishTwoFetch(c.name, CodesAlone(c.name, c.arg), c.d1, data),
                   Dispatch(c.name, c.arg).lookups, 2)
    ELSE Completed(c.name, c.arg,
                   FinishOneFetch(c.name, CodesAlone(c.name, c.arg), data),
                   Dispatch(c.name, c.arg).lookups, 1)

\* C15: while calls are suspended and resumed in any order no step changes
\* an index, flag or error; every suspended call holds the SA2 codes of its
\* own postcode; and a call that completes answers as it would alone, from
\* its own name, argument and fetch results, leaving the other suspended
\* calls as they were.
C15_InterleavingsReadOnly ==
    /\ [][phase = "serving" => UNCHANGED indexVars]_vars
    /\ [](\A i \in 1..Len(pending) :
             pending[i].sa2Codes = CodesAlone(pending[i].name, pending[i].arg))
    /\ [][Len(pending') < Len(pending) =>
             \E i \in 1..Len(pending) :
                /\ pending' = RemoveAt(pending, i)
                /\ \E data \in FetchResults :
                      lastCall' = CompletedAlone(pending[i], data)
         ]_vars

\* two calls for different postcodes are both suspended between their first
\* and second fetch, each with the codes of its own postcode
C15_Witness ==
    /\ Len(pending) = 2
    /\ pending[1].arg = Str(PC2000) /\ pending[2].arg = Str(PC2060)
    /\ pending[1].d1 # NoData /\ pending[2].d1 # NoData
    /\ pending[1].sa2Codes = <<SA11, SA12>>
    /\ pending[2].sa2Codes = <<SA20>>

\* ------------------------------------------------------------------------
\* Sub-index life cycle properties
\* ------------------------------------------------------------------------
PcReadyXorFailed ==
    \/ cacheInitialized /\ cacheError = NoError
    \/ ~cacheInitialized /\ cacheError # NoError
GeoReadyXorFailed ==
    \/ geoBoundariesInitialized /\ geoBoundariesError = NoError
    \/ ~geoBoundariesInitialized /\ geoBoundariesError # NoError

\* C18 (as claimed): once the initialization of a sub-index has finished,
\* the sub-index is either ready with no error recorded or failed with an
\* error recorded and the ready flag unset, never both and never neither.
C18_ReadyXorFailed ==
    /\ phase # "initCache" => PcReadyXorFailed
    /\ phase \notin {"initCache", "initGeo"} => GeoReadyXorFailed

\* C19: once a sub-index is ready or failed, its ready flag and its recorded
\* error never change again, whatever is called afterwards; the content of a
\* ready index does not change either.
C19_SingleShotInitialization ==
    [][ /\ CacheInitFinished =>
             UNCHANGED <<cacheInitialized, cacheError, geographyCache>>
        /\ GeoInitFinished =>
             UNCHANGED <<geoBoundariesInitialized, geoBoundariesError, geoFeatures>>
      ]_vars

\* calls have been answered and are in flight on a server whose concordance
\* index is still failed and whose boundary index is still ready
C19_Witness ==
    /\ phase = "serving"
    /\ nCalls = 2 /\ lastCall.made /\ pending # <<>>
    /\ ~cacheInitialized /\ cacheError = CacheErrorText
    /\ geoBoundariesInitialized /\ geoBoundariesError = NoError

\* C20: for every combination of cache and embedded files, start-up reaches
\* a state where each sub-index is ready or failed and the transport has
\* been connected; it does not stay in a loading phase.
C20_InitializationTerminates ==
    <>(/\ phase \in {"serving", "crashed"}
       /\ CacheInitFinished
       /\ GeoInitFinished)

\* the transport is connected although both loads failed: the cache files
\* were stale and the embedded files unreadable
C20_Witness ==
    /\ phase = "serving"
    /\ ~cacheInitialized /\ cacheError # NoError
    /\ ~geoBoundariesInitialized /\ geoBoundariesError # NoError
    /\ fs.pcCache.exists /\ fs.pcCache.age > cacheMaxAge
    /\ fs.geoCache.exists /\ ~fs.geoCache.statOk
    /\ ~fs.pcBase.readable /\ ~fs.geoBase.readable

\* ------------------------------------------------------------------------
\* Cache writes per process start
\* ------------------------------------------------------------------------
BaselineRead(cacheFile, baseFile) == ~FreshCache(cacheFile) /\ baseFile.readable
DirectoryAvailable(f) == f.dataDir \/ f.mkdirOk

\* the cache file after a write of the given bytes that did or did not succeed
WrittenOrKept(old, new, text) ==
    IF old.writable
    THEN new.exists /\ new.age = 0 /\ new.content = text
    ELSE new = old

\* C21 as stated: a loader that reads the baseline file makes exactly one
\* write of the cache file, and a loader that uses the cache or cannot read
\* the baseline file makes none; no other step writes.
C21_OneWritePerBaselineLoad ==
    [][ /\ PcInitStep =>
             writeAttempts'["postcodes"] =
                IF BaselineRead(fs.pcCache, fs.pcBase) THEN 1 ELSE 0
        /\ GeoInitStep =>
             writeAttempts'["boundaries"] =
                IF BaselineRead(fs.geoCache, fs.geoBase) THEN 1 ELSE 0
        /\ ~PcInitStep /\ phase' # "initCache" =>
             writeAttempts'["postcodes"] = writeAttempts["postcodes"]
        /\ ~GeoInitStep /\ phase' # "initCache" =>
             writeAttempts'["boundaries"] = writeAttempts["boundaries"]
      ]_vars

\* C21 (amended): per dataset and per process start, the number of writes of
\* the cache file is one when the loader reads the baseline file and the
\* cache directory exists or can be created (the baseline bytes are what is
\* written, and the directory exists afterwards), and zero when the cache
\* tier is used, the baseline read fails, or the directory is absent and
\* cannot be created; no later step of the run writes again, whether or not
\* the write succeeded.
C21_OneWriteWhenDirectoryAvailable ==
    /\ [](\A d \in Datasets : writeAttempts[d] \in {0, 1})
    /\ [][ /\ PcInitStep =>
                /\ writeAttempts'["postcodes"] =
                      IF BaselineRead(fs.pcCache, fs.pcBase) /\ DirectoryAvailable(fs)
                      THEN 1 ELSE 0
                /\ writeAttempts'["postcodes"] = 1 =>
                      /\ fs'.dataDir
                      /\ WrittenOrKept(fs.pcCache, fs'.pcCache, fs.pcBase.content)
                /\ writeAttempts'["postcodes"] = 0 => fs'.pcCache = fs.pcCache
           /\ GeoInitStep =>
                /\ writeAttempts'["boundaries"] =
                      IF BaselineRead(fs.geoCache, fs.geoBase) /\ DirectoryAvailable(fs)
                      THEN 1 ELSE 0
                /\ writeAttempts'["boundaries"] = 1 =>
                      /\ fs'.dataDir
                      /\ WrittenOrKept(fs.geoCache, fs'.geoCache, fs.geoBase.content)
                /\ writeAttempts'["boundaries"] = 0 => fs'.geoCache = fs.geoCache
           /\ ~PcInitStep /\ phase' # "initCache" =>
                writeAttempts'["postcodes"] = writeAttempts["postcodes"]
           /\ ~GeoInitStep /\ phase' # "initCache" =>
                writeAttempts'["boundaries"] = writeAttempts["boundaries"]
         ]_vars

\* a second start that used the concordance cache written by the first (no
\* write) and read the boundary baseline again (one write, which failed as
\* it had in the first run)
C21_Witness ==
    /\ previousStart.n = 1
    /\ previousStart.tier["postcodes"] = "baseline"
    /\ previousStart.writeAttempts["postcodes"] = 1
    /\ previousStart.writeAttempts["boundaries"] = 1
    /\ phase = "connect"
    /\ tier["postcodes"] = "cached" /\ writeAttempts["postcodes"] = 0
    /\ tier["boundaries"] = "baseline" /\ writeAttempts["boundaries"] = 1
    /\ ~fs.geoCache.exists

\* ------------------------------------------------------------------------
\* Indexes after their ready flag is set
\* ------------------------------------------------------------------------
\* text the boundary collection was parsed from
GeoSourceText ==
    IF tier["boundaries"] = "cached" THEN fs.geoCache.content ELSE fs.geoBase.content

\* C22: an index is written only by the step that sets its ready flag.  Once
\* a flag is true it stays true and the content of its index stays what that
\* step built from the file it read; before that step the index is empty;
\* and no tool call, fetch completion, coordinate lookup or reverse lookup
\* changes the postcode map or the feature collection.
C22_IndexesFrozenOnceReady ==
    /\ [](cacheInitialized => geographyCache = ParseCsv(<<>>, PcSourceText))
    /\ [](geoBoundariesInitialized => geoFeatures = JsonParse(GeoSourceText))
    /\ [](~cacheInitialized => geographyCache = <<>>)
    /\ [](~geoBoundariesInitialized => geoFeatures = NullFeatures)
    /\ [][cacheInitialized =>
             cacheInitialized' /\ geographyCache' = geographyCache]_vars
    /\ [][geoBoundariesInitialized =>
             geoBoundariesInitialized' /\ geoFeatures' = geoFeatures]_vars
    /\ [][(nCalls' # nCalls \/ nQueries' # nQueries \/ pending' # pending) =>
             geographyCache' = geographyCache /\ geoFeatures' = geoFeatures]_vars

\* a reverse lookup found postcode 2060, the second entry of the map, and the
\* map is still the one built from the file; a postcode call was answered too
C22_Witness ==
    /\ cacheInitialized /\ geoBoundariesInitialized
    /\ lastQuery.made /\ lastQuery.reverse.called
    /\ ~lastQuery.reverse.isNull /\ lastQuery.reverse.postcode = PC2060
    /\ geographyCache = ParseCsv(<<>>, CsvMain)
    /\ geographyCache[2].postcode = PC2060
    /\ nCalls > 0

\* ------------------------------------------------------------------------
\* Features that cannot be evaluated
\* ------------------------------------------------------------------------
\* the geometry is of another kind, or testing its polygons in order raises
\* an error before a polygon containing the point is reached
Unevaluable(f, latitude, longitude) ==
    \/ f.type \notin {"Polygon", "MultiPolygon"}
    \/ f.type = "Polygon" /\ f.polys[1].bad
    \/ f.type = "MultiPolygon"
          /\ \E j \in 1..Len(f.polys) :
                /\ f.polys[j].bad
                /\ \A k \in 1..(j - 1) : ~InRect(latitude, longitude, f.polys[k])

\* C23: on a loaded collection and a coordinate in range the scan always runs
\* to a match or to the end of the list; a feature that cannot be evaluated
\* (error raised, or a geometry that is neither Polygon nor MultiPolygon) is
\* never the one returned, and when a feature after it evaluates to
\* containing the point, a feature is returned no later than that one.
C23_UnevaluableFeatureSkipped ==
    (QueriedLoadedCollection /\ ~OutOfRange(lastQuery.latitude, lastQuery.longitude)) =>
       LET features == geoFeatures.features
           lat == lastQuery.latitude
           lon == lastQuery.longitude
           r == lastQuery.result
       IN /\ r.site \in {"match", "noMatch"}
          /\ r.isNull <=> r.site = "noMatch"
          /\ \A i \in 1..Len(features) :
                Unevaluable(features[i], lat, lon) =>
                   /\ ~r.isNull => r.tested # i
                   /\ \A k \in (i + 1)..Len(features) :
                         ContainsBeforeError(features[k], lat, lon) =>
                            /\ ~r.isNull
                            /\ r.tested <= k
                            /\ r.sa2Code = features[r.tested].SA2_CODE

\* a malformed polygon, a multi-polygon with a malformed member and a point
\* geometry were passed over and the fourth feature was returned
C23_Witness ==
    /\ QueriedLoadedCollection
    /\ geoFeatures.features = GeoBroken.features
    /\ lastQuery.latitude = 1 /\ lastQuery.longitude = 100
    /\ Unevaluable(geoFeatures.features[1], 1, 100)
    /\ Unevaluable(geoFeatures.features[2], 1, 100)
    /\ Unevaluable(geoFeatures.features[3], 1, 100)
    /\ ~lastQuery.result.isNull
    /\ lastQuery.result.tested = 4
    /\ lastQuery.result.sa2Code = SA11

\* ------------------------------------------------------------------------
\* Rows the concordance parse skips
\* ------------------------------------------------------------------------
\* blank, fewer than two comma-separated fields, or an empty first or second
\* field
SkippedRow(rawLine) ==
    \/ Trim(rawLine) = <<>>
    \/ RowFields(rawLine).n < 2
    \/ RowFields(rawLine).postcode = <<>>
    \/ RowFields(rawLine).sa2Code = <<>>

\* lines after the header that are not skipped
IndexedRows(lines) == {i \in 2..Len(lines) : ~SkippedRow(lines[i])}

RECURSIVE TotalCodes(_, _)
TotalCodes(m, i) ==
    IF i > Len(m) THEN 0 ELSE Len(m[i].sa2Codes) + TotalCodes(m, i + 1)

LoadedText(cacheFile, baseFile) ==
    IF FreshCache(cacheFile) THEN cacheFile.content ELSE baseFile.content

\* C24: whenever the concordance file is read, the parse finishes and the
\* index is ready without error, whatever rows the file holds; the header
\* line and every blank, short or empty-field row add nothing, and every
\* other row adds exactly one code under its postcode.
C24_BadRowsSkippedNotFatal ==
    [][(PcInitStep /\ PcLoadSucceeds(fs)) =>
          LET lines == Split(LoadedText(fs.pcCache, fs.pcBase), "\n") IN
          /\ cacheInitialized'
          /\ cacheError' = NoError
          /\ TotalCodes(geographyCache', 1) = Cardinality(IndexedRows(lines))
          /\ MapKeys(geographyCache') =
                {RowFields(lines[i]).postcode : i \in IndexedRows(lines)}
          /\ \A i \in IndexedRows(lines) :
                \E j \in 1..Len(MapGet(geographyCache', RowFields(lines[i]).postcode)) :
                   MapGet(geographyCache', RowFields(lines[i]).postcode)[j]
                      = RowFields(lines[i]).sa2Code
      ]_vars

\* the file with a blank line, a one-field row, a row without postcode and a
\* row without code was parsed to the end: its last row is indexed, three
\* rows in all
C24_Witness ==
    /\ cacheInitialized /\ cacheError = NoError
    /\ PcSourceText = CsvMessy
    /\ Cardinality({i \in 2..Len(Split(CsvMessy, "\n")) :
                       SkippedRow(Split(CsvMessy, "\n")[i])}) = 4
    /\ TotalCodes(geographyCache, 1) = 3
    /\ MapKeys(geographyCache) = {PC2000, PC2060}
    /\ MapGet(geographyCache, PC2060) = <<SA11>>

\* ------------------------------------------------------------------------
\* The disk cache while the server runs
\* ------------------------------------------------------------------------
\* a step taken by a tool call, a fetch completion or a lookup
RequestStep ==
    /\ phase = "serving" /\ phase' = "serving"
    /\ nCalls' # nCalls \/ nQueries' # nQueries \/ pending' # pending

\* the two files but for their ages
SameFilesButAge(f, g) ==
    /\ [f EXCEPT !.pcCache.age = 0, !.geoCache.age = 0]
         = [g EXCEPT !.pcCache.age = 0, !.geoCache.age = 0]

\* C25: a tool call, fetch completion or lookup leaves the files, the tier
\* each loader took and the write counts as they are; while the server runs
\* the files change by their age only; the tier of a dataset is decided by
\* the age test in the dataset's own start-up step and by no other step, so a
\* cache file that has turned stale under a running server stays as it is,
\* with the index built from it still in use, until the loader of the next
\* process start finds it stale.
C25_NoCacheAccessAfterInit ==
    /\ [][RequestStep => fs' = fs /\ tier' = tier /\ writeAttempts' = writeAttempts]_vars
    /\ [][(phase = "serving" /\ phase' = "serving") =>
             /\ SameFilesButAge(fs, fs')
             /\ tier' = tier /\ writeAttempts' = writeAttempts
             /\ UNCHANGED indexVars]_vars
    /\ [][tier'["postcodes"] # tier["postcodes"] =>
             \/ PcInitStep /\ (tier'["postcodes"] = "cached" <=> FreshCache(fs.pcCache))
             \/ phase' = "initCache"]_vars
    /\ [][tier'["boundaries"] # tier["boundaries"] =>
             \/ GeoInitStep /\ (tier'["boundaries"] = "cached" <=> FreshCache(fs.geoCache))
             \/ phase' = "initCache"]_vars
    /\ []((phase = "serving" /\ tier["postcodes"] = "cached") =>
             /\ writeAttempts["postcodes"] = 0
             /\ geographyCache = ParseCsv(<<>>, fs.pcCache.content))

\* the concordance cache was fresh at start-up and has turned stale since;
\* a postcode call and a reverse lookup have been answered from the index
\* built from it, and the file has not been rewritten
C25_Witness ==
    /\ phase = "serving"
    /\ tier["postcodes"] = "cached"
    /\ fs.pcCache.exists /\ fs.pcCache.age >= 30 * 24 * 60 * 60
    /\ fs.pcCache.content = CsvOld
    /\ writeAttempts["postcodes"] = 0
    /\ lastCall.made /\ lastCall.arg = Str(PC2060) /\ ~lastCall.response.isError
    /\ lastQuery.reverse.called /\ lastQuery.reverse.postcode = PC2060

\* the next start found that file stale, read the embedded file and
\* rewrote the cache
C25_WitnessNextStart ==
    /\ previousStart.n = 1
    /\ previousStart.tier["postcodes"] = "cached"
    /\ previousStart.writeAttempts["postcodes"] = 0
    /\ phase = "serving"
    /\ tier["postcodes"] = "baseline"
    /\ writeAttempts["postcodes"] = 1
    /\ fs.pcCache.content = CsvMain /\ fs.pcCache.age = 0

\* ------------------------------------------------------------------------
\* A fresh cache file that cannot be used
\* ------------------------------------------------------------------------
PcCacheUnusable(f) == FreshCache(f.pcCache) /\ ~f.pcCache.readable
GeoCacheUnusable(f) ==
    FreshCache(f.geoCache)
       /\ (~f.geoCache.readable \/ ~f.geoCache.content.syntaxOk)

\* the previous run took the cache tier and its load failed
PreviousPcFailedOnCache ==
    /\ previousStart.n > 0
    /\ previousStart.tier["postcodes"] = "cached"
    /\ ~previousStart.cacheInitialized
PreviousGeoFailedOnCache ==
    /\ previousStart.n > 0
    /\ previousStart.tier["boundaries"] = "cached"
    /\ ~previousStart.geoBoundariesInitialized

\* C26: a loader that finds its cache file fresh but unreadable (or, for the
\* boundaries, not parsable) records an error and leaves its index empty and
\* not ready: it does not read the embedded file, makes no write and leaves
\* every file as it is.  A later start after such a failure fails in the same
\* way as long as the file is under 30 days old at that start, and takes the
\* baseline tier once it is not.
C26_UnusableFreshCacheFailsLoad ==
    [][ /\ (PcInitStep /\ PcCacheUnusable(fs)) =>
             /\ tier'["postcodes"] = "cached"
             /\ ~cacheInitialized' /\ cacheError' # NoError
             /\ geographyCache' = <<>>
             /\ writeAttempts'["postcodes"] = 0
             /\ fs' = fs
        /\ (GeoInitStep /\ GeoCacheUnusable(fs)) =>
             /\ tier'["boundaries"] = "cached"
             /\ ~geoBoundariesInitialized' /\ geoBoundariesError' # NoError
             /\ geoFeatures' = NullFeatures
             /\ writeAttempts'["boundaries"] = 0
             /\ fs' = fs
        /\ (PcInitStep /\ PreviousPcFailedOnCache) =>
             IF FreshCache(fs.pcCache)
             THEN /\ ~cacheInitialized' /\ cacheError' = previousStart.cacheError
                  /\ geographyCache' = previousStart.geographyCache
                  /\ tier'["postcodes"] = "cached"
                  /\ fs' = fs
             ELSE tier'["postcodes"] = "baseline"
        /\ (GeoInitStep /\ PreviousGeoFailedOnCache) =>
             IF FreshCache(fs.geoCache)
             THEN /\ ~geoBoundariesInitialized'
                  /\ geoBoundariesError' = previousStart.geoBoundariesError
                  /\ geoFeatures' = previousStart.geoFeatures
                  /\ tier'["boundaries"] = "cached"
                  /\ fs' = fs
             ELSE tier'["boundaries"] = "baseline"
      ]_vars

\* second start in a row in which the concordance load failed on a fresh
\* unreadable cache file and the boundary load on a fresh unparsable one,
\* with both embedded files readable and nothing written
C26_Witness ==
    /\ PreviousPcFailedOnCache /\ PreviousGeoFailedOnCache
    /\ phase = "connect"
    /\ fs.pcCache.exists /\ ~fs.pcCache.readable
    /\ fs.geoCache.exists /\ ~fs.geoCache.content.syntaxOk
    /\ fs.pcBase.readable /\ fs.geoBase.readable
    /\ tier["postcodes"] = "cached" /\ tier["boundaries"] = "cached"
    /\ ~cacheInitialized /\ cacheError # NoError
    /\ ~geoBoundariesInitialized /\ geoBoundariesError # NoError
    /\ writeAttempts["postcodes"] = 0 /\ writeAttempts["boundaries"] = 0

\* a start after such a failure, with the file by then 30 days old, read the
\* embedded file and the index is ready
C26_WitnessAfterExpiry ==
    /\ PreviousPcFailedOnCache
    /\ phase = "connect"
    /\ tier["postcodes"] = "baseline"
    /\ cacheInitialized
    /\ geographyCache = ParseCsv(<<>>, CsvMain)

\* ------------------------------------------------------------------------
\* Cache round trip
\* ------------------------------------------------------------------------
\* the save of a baseline load goes through
SaveSucceeds(cacheFile, baseFile, f) ==
    BaselineRead(cacheFile, baseFile) /\ DirectoryAvailable(f) /\ cacheFile.writable

\* the previous run read the baseline file and its write went through
PreviousPcSaved ==
    /\ previousStart.n > 0
    /\ previousStart.tier["postcodes"] = "baseline"
    /\ previousStart.writeAttempts["postcodes"] = 1
    /\ fs.pcCache.writable
PreviousGeoSaved ==
    /\ previousStart.n > 0
    /\ previousStart.tier["boundaries"] = "baseline"
    /\ previousStart.writeAttempts["boundaries"] = 1
    /\ fs.geoCache.writable

Within30Days(cacheFile) == cacheFile.exists /\ cacheFile.age < 30 * 24 * 60 * 60

\* C27 as stated: a baseline load whose write goes through leaves a cache
\* file holding the baseline bytes, and the next start, if within 30 days,
\* takes the cache tier, writes nothing and ends with the index of the
\* previous run.
C27_CacheRoundTrip ==
    [][ /\ (PcInitStep /\ SaveSucceeds(fs.pcCache, fs.pcBase, fs)) =>
             /\ fs'.pcCache.exists /\ fs'.pcCache.age = 0
             /\ fs'.pcCache.content = fs.pcBase.content
        /\ (GeoInitStep /\ SaveSucceeds(fs.geoCache, fs.geoBase, fs)) =>
             /\ fs'.geoCache.exists /\ fs'.geoCache.age = 0
             /\ fs'.geoCache.content = fs.geoBase.content
        /\ (PcInitStep /\ PreviousPcSaved /\ Within30Days(fs.pcCache)) =>
             /\ tier'["postcodes"] = "cached"
             /\ writeAttempts'["postcodes"] = 0 /\ fs' = fs
             /\ cacheInitialized' = previousStart.cacheInitialized
             /\ geographyCache' = previousStart.geographyCache
        /\ (GeoInitStep /\ PreviousGeoSaved /\ Within30Days(fs.geoCache)) =>
             /\ tier'["boundaries"] = "cached"
             /\ writeAttempts'["boundaries"] = 0 /\ fs' = fs
             /\ geoBoundariesInitialized' = previousStart.geoBoundariesInitialized
             /\ geoFeatures' = previousStart.geoFeatures
      ]_vars

\* C27 (amended): a baseline load whose write goes through leaves a cache
\* file holding the baseline bytes, and the next start, if within 30 days,
\* takes the cache tier and writes nothing.  If the cache file can be read,
\* that start ends with the index of the previous run; if it cannot (the
\* write went through on a file the process may write but not read), the
\* load fails: an error is recorded, the index is left empty and not ready,
\* and the embedded file is not read in its place.
C27_CacheRoundTripOrFailedRead ==
    [][ /\ (PcInitStep /\ SaveSucceeds(fs.pcCache, fs.pcBase, fs)) =>
             /\ fs'.pcCache.exists /\ fs'.pcCache.age = 0
             /\ fs'.pcCache.content = fs.pcBase.content
        /\ (GeoInitStep /\ SaveSucceeds(fs.geoCache, fs.geoBase, fs)) =>
             /\ fs'.geoCache.exists /\ fs'.geoCache.age = 0
             /\ fs'.geoCache.content = fs.geoBase.content
        /\ (PcInitStep /\ PreviousPcSaved /\ Within30Days(fs.pcCache)) =>
             /\ tier'["postcodes"] = "cached"
             /\ writeAttempts'["postcodes"] = 0 /\ fs' = fs
             /\ IF fs.pcCache.readable
                THEN /\ cacheInitialized' = previousStart.cacheInitialized
                     /\ geographyCache' = previousStart.geographyCache
                ELSE /\ ~cacheInitialized' /\ cacheError' # NoError
                     /\ geographyCache' = <<>>
        /\ (GeoInitStep /\ PreviousGeoSaved /\ Within30Days(fs.geoCache)) =>
             /\ tier'["boundaries"] = "cached"
             /\ writeAttempts'["boundaries"] = 0 /\ fs' = fs
             /\ IF fs.geoCache.readable
                THEN /\ geoBoundariesInitialized' = previousStart.geoBoundariesInitialized
                     /\ geoFeatures' = previousStart.geoFeatures
                ELSE /\ ~geoBoundariesInitialized' /\ geoBoundariesError' # NoError
                     /\ geoFeatures' = NullFeatures
      ]_vars

\* the first start read both embedded files and wrote both cache files; the
\* second, less than 30 days later, read the cache files, wrote nothing and
\* holds the same two indexes
C27_Witness ==
    /\ PreviousPcSaved /\ PreviousGeoSaved
    /\ phase = "connect"
    /\ fs.pcCache.age = 30 * 24 * 60 * 60 - 1
    /\ fs.pcCache.content = fs.pcBase.content
    /\ fs.geoCache.content = fs.geoBase.content
    /\ tier["postcodes"] = "cached" /\ tier["boundaries"] = "cached"
    /\ writeAttempts["postcodes"] = 0 /\ writeAttempts["boundaries"] = 0
    /\ cacheInitialized /\ geographyCache = ParseCsv(<<>>, CsvMain)
    /\ geographyCache = previousStart.geographyCache
    /\ geoBoundariesInitialized /\ geoFeatures.features = GeoMain.features
    /\ geoFeatures = previousStart.geoFeatures

\* the first start rewrote a stale concordance cache file that the process
\* may write but not read and was ready; the second, less than 30 days
\* later, took the cache tier, could not read the file and is not ready,
\* with the embedded file readable and nothing written
C27_WitnessFailedRead ==
    /\ PreviousPcSaved
    /\ previousStart.cacheInitialized
    /\ previousStart.geographyCache = ParseCsv(<<>>, CsvMain)
    /\ phase = "connect"
    /\ Within30Days(fs.pcCache) /\ ~fs.pcCache.readable
    /\ fs.pcCache.content = fs.pcBase.content /\ fs.pcBase.readable
    /\ tier["postcodes"] = "cached" /\ writeAttempts["postcodes"] = 0
    /\ ~cacheInitialized /\ cacheError # NoError /\ geographyCache = <<>>

\* ------------------------------------------------------------------------
\* Region tools
\* ------------------------------------------------------------------------
\* absent, empty or made of whitespace only
EmptyRegion(arg) ==
    ~arg.defined \/ \A k \in 1..Len(arg.s) : arg.s[k] \in Whitespace

\* answer of a region tool as a function of its name and fetch results alone
RegionResponse(name, d1, d2) ==
    IF name \in TwoFetchTools THEN FinishTwoFetch(name, <<>>, d1, d2)
    ELSE FinishOneFetch(name, <<>>, d2)

\* C28: a region tool call makes no lookup in either index and holds no SA2
\* codes; an absent, empty or whitespace-only region is answered with the
\* region validation error before any fetch, and any other region goes on to
\* the fetch whatever the state of the indexes; the response of a call that
\* completes is a function of the tool and its fetch results alone, the same
\* with the indexes ready as with the indexes failed.
C28_RegionToolsIgnoreIndexes ==
    /\ []((lastCall.made /\ lastCall.name \in RegionTools) =>
             /\ lastCall.lookups = 0
             /\ lastCall.response.payload.sa2Codes = <<>>
             /\ lastCall.response.text \notin {NotInitializedMessage, NotFoundMessage}
             /\ EmptyRegion(lastCall.arg) <=> lastCall.response.text = RegionMessage
             /\ EmptyRegion(lastCall.arg) <=> lastCall.fetches = 0)
    /\ [](\A i \in 1..Len(pending) :
             pending[i].name \in RegionTools =>
                /\ ~EmptyRegion(pending[i].arg)
                /\ pending[i].sa2Codes = <<>> /\ pending[i].lookups = 0)
    /\ [][\A i \in 1..Len(pending) :
             (pending[i].name \in RegionTools /\ pending' = RemoveAt(pending, i)) =>
                \A data \in FetchResults :
                   FetchReturn(i, data) =>
                      lastCall'.response
                         = RegionResponse(pending[i].name, pending[i].d1, data)
         ]_vars

\* a region call was answered with figures while neither index was ready
C28_Witness ==
    /\ ~cacheInitialized /\ ~geoBoundariesInitialized
    /\ lastCall.made /\ lastCall.name = "get_wealth_migration"
    /\ lastCall.arg = Str(PC2000)
    /\ ~lastCall.response.isError
    /\ lastCall.response.payload.a = Num(4000)
    /\ lastCall.fetches = 2

\* the same call with both indexes ready, postcode 2000 indexed, and the
\* same answer
C28_WitnessIndexesReady ==
    /\ cacheInitialized /\ geoBoundariesInitialized
    /\ MapHas(geographyCache, PC2000)
    /\ lastCall.made /\ lastCall.name = "get_wealth_migration"
    /\ lastCall.arg = Str(PC2000)
    /\ ~lastCall.response.isError
    /\ lastCall.response.payload.a = Num(4000)
    /\ lastCall.response.payload.sa2Codes = <<>>
    /\ lastCall.fetches = 2

\* ------------------------------------------------------------------------
\* Tools that combine two ABS figures
\* ------------------------------------------------------------------------
\* fetchABSData gave its { error } object
FetchFailed(data) == data.kind = "error"
\* the figure a fetch result carries, 0 when it carries none
FigureOrZero(data) == IF data.kind = "value" THEN data.n ELSE 0

\* C29: a get_wealth_migration call answers with an error exactly when both
\* of its fetches failed, and otherwise with a success whose figures are
\* those of the fetch results, 0 standing for a failed fetch or a result
\* without a value; a get_supply_pipeline call answers with an error
\* whenever either result carries no value, and a success of it carries
\* both figures.
C29_WealthToleratesMissingFigure ==
    [][\A i \in 1..Len(pending) :
          pending' = RemoveAt(pending, i) =>
             \A data \in FetchResults :
                FetchReturn(i, data) =>
                   LET c == pending[i]
                       r == lastCall'.response
                   IN /\ c.name = "get_wealth_migration" =>
                           /\ r.isError <=> (FetchFailed(c.d1) /\ FetchFailed(data))
                           /\ ~r.isError =>
                                 /\ r.payload.a = Num(FigureOrZero(c.d1))
                                 /\ r.payload.b = Num(FigureOrZero(data))
                      /\ c.name = "get_supply_pipeline" =>
                           /\ (c.d1.kind # "value" \/ data.kind # "value") => r.isError
                           /\ ~r.isError =>
                                 /\ r.payload.a = Num(c.d1.n)
                                 /\ r.payload.b = Num(data.n)
      ]_vars

\* ------------------------------------------------------------------------
\* Reverse geocoding to a postcode
\* ------------------------------------------------------------------------
\* postcodes with a row for the SA2 code
PostcodesListing(lines, code) ==
    {RowFields(lines[i]).postcode :
        i \in {j \in IndexedRows(lines) : RowFields(lines[j]).sa2Code = code}}

\* row on which the postcode first appears
FirstRowOf(lines, postcode) ==
    FirstOf({i \in IndexedRows(lines) : RowFields(lines[i]).postcode = postcode})

\* the postcode listing the code that appears first in the file
FirstPostcodeListing(lines, code) ==
    CHOOSE p \in PostcodesListing(lines, code) :
        \A q \in PostcodesListing(lines, code) :
            FirstRowOf(lines, p) <= FirstRowOf(lines, q)

\* C30: getPostcodeFromCoordinates gives a postcode only when the boundary
\* lookup found a feature whose geometry contains the point and the
\* concordance file has a row with that feature's SA2 code; the postcode is
\* then, of the postcodes with such a row, the one that appears first in the
\* file, and the answer carries the feature's code and name.  It gives none
\* when no feature of the collection contains the point, when no row carries
\* the code, and when the concordance index is not ready.
C30_ReverseToFirstListingPostcode ==
    (lastQuery.made /\ lastQuery.reverse.called) =>
       LET r == lastQuery.reverse
           g == lastQuery.result
           lat == lastQuery.latitude
           lon == lastQuery.longitude
           lines == Split(PcSourceText, "\n")
       IN /\ ~r.isNull =>
                /\ QueriedLoadedCollection /\ ~g.isNull
                /\ GeomContains(geoFeatures.features[g.tested], lat, lon)
                /\ r.sa2Code = geoFeatures.features[g.tested].SA2_CODE
                /\ r.sa2Name = geoFeatures.features[g.tested].SA2_NAME
                /\ cacheInitialized
                /\ PostcodesListing(lines, r.sa2Code) # {}
                /\ r.postcode = FirstPostcodeListing(lines, r.sa2Code)
          /\ r.isNull <=>
                \/ g.isNull
                \/ ~cacheInitialized
                \/ PostcodesListing(lines, g.sa2Code) = {}
          /\ (QueriedLoadedCollection
                 /\ \A i \in 1..Len(geoFeatures.features) :
                       ~GeomContains(geoFeatures.features[i], lat, lon)) => r.isNull

\* the point lies in the region with code 20, which the file lists for 2060
\* on its second data row and for 2000 on its third; the answer is 2000, the
\* postcode that appears first in the file
C30_Witness ==
    /\ lastQuery.made /\ lastQuery.reverse.called
    /\ cacheInitialized /\ PcSourceText = CsvShared
    /\ lastQuery.latitude = 1 /\ lastQuery.longitude = 0
    /\ lastQuery.result.sa2Code = SA20
    /\ PostcodesListing(Split(CsvShared, "\n"), SA20) = {PC2000, PC2060}
    /\ ~lastQuery.reverse.isNull
    /\ lastQuery.reverse.postcode = PC2000
    /\ lastQuery.reverse.sa2Code = SA20

\* a feature contains the point and the concordance index is not ready: none
C30_WitnessIndexNotReady ==
    /\ lastQuery.made /\ lastQuery.reverse.called
    /\ ~cacheInitialized
    /\ ~lastQuery.result.isNull
    /\ lastQuery.reverse.isNull

====
